---- MODULE Spec2Model ----
(***************************************************************************)
(* A model of the read buffer's RowGroup (read_buffer/src/row_group.rs):   *)
(* construction, the metadata pruner, the predicate planner, read_filter,  *)
(* the read_group kernels, the packed group key and GroupKey ordering,     *)
(* and of the Server (server/src/server.rs): the id gate, configuration,   *)
(* write_lines and the replication of its writes to host groups, and the   *)
(* tasks that call the Server concurrently under the lock of its config.   *)
(*                                                                         *)
(* Row ids are 0-based as in the source; TLA+ sequences are 1-based, so    *)
(* row r of a column is data[r + 1].  Logical values are integers: NULL is *)
(* the null value, strings are modelled by their rank in the string order. *)
(***************************************************************************)
EXTENDS Integers, Sequences, FiniteSets, TLC

VARIABLES
    rg,     \* the RowGroup under test (immutable after construction)
    call,   \* the last call made: its operation, arguments and result
    server, \* the Server (server/src/server.rs) with its object store and remotes
    tasks,  \* the position and the locals of each task that calls the Server
    lock    \* the RwLock around the Server's config: holders and wait queue

vars == <<rg, call, server, tasks, lock>>

----------------------------------------------------------------------------
(* Bounds of the model *)

\* number of logical rows R of the row groups explored
MaxRows == 3

----------------------------------------------------------------------------
(* Value model (crate::column, not part of src/: taken from spec 3 / 4.1) *)

\* Value::Null
NULL == 0

\* cmp::Operator
Operators == {"Equal", "NotEqual", "GT", "GTE", "LT", "LTE"}

\* the name of the timestamp column
TIME_COLUMN_NAME == "time"

SetMin(S) == CHOOSE x \in S : \A y \in S : x <= y
SetMax(S) == CHOOSE x \in S : \A y \in S : x >= y

RECURSIVE SortedSeq(_)
\* the elements of a finite set of integers in ascending order
SortedSeq(S) == IF S = {} THEN <<>> ELSE <<SetMin(S)>> \o SortedSeq(S \ {SetMin(S)})

\* RowIDs::to_vec of a bitmap: the row ids in ascending order
to_vec(ids) == SortedSeq(ids)

\* whether logical value a satisfies (op, v); a null value satisfies nothing
Holds(op, a, v) ==
    /\ a # NULL
    /\ CASE op = "Equal"    -> a = v
         [] op = "NotEqual" -> a # v
         [] op = "GT"       -> a > v
         [] op = "GTE"      -> a >= v
         [] op = "LT"       -> a < v
         [] op = "LTE"      -> a <= v

----------------------------------------------------------------------------
(* Column capability surface (spec 4.1).  A column is a record             *)
(*   [kind, data, pre]: its role, its logical values by row, and whether   *)
(* it has pre-computed row ids (the RLE case).                             *)

num_rows(c) == Len(c.data)

\* the byte size of a column; every row is taken to weigh one unit
ColumnSize(c) == Len(c.data)

NonNullValues(c) == {c.data[i] : i \in 1..Len(c.data)} \ {NULL}

\* column_range(): <<>> (None) iff the column is entirely null, else <<min, max>>
column_range(c) ==
    IF NonNullValues(c) = {} THEN <<>>
    ELSE <<SetMin(NonNullValues(c)), SetMax(NonNullValues(c))>>

AllRows(c) == 0..(num_rows(c) - 1)

\* the three-way result of a filter over the rows of column c
RowIDsOption(c, ids) ==
    IF ids = {} THEN [tag |-> "None", ids |-> {}]
    ELSE IF ids = AllRows(c) THEN [tag |-> "All", ids |-> {}]
    ELSE [tag |-> "Some", ids |-> ids]

\* row_ids_filter(op, value, dst)
row_ids_filter(c, op, value) ==
    RowIDsOption(c, {r \in AllRows(c) : Holds(op, c.data[r + 1], value)})

\* row_ids_filter_range(lo, hi, dst): two comparison bounds applied together
row_ids_filter_range(c, lo, hi) ==
    RowIDsOption(c, {r \in AllRows(c) : /\ Holds(lo[1], c.data[r + 1], lo[2])
                                        /\ Holds(hi[1], c.data[r + 1], hi[2])})

\* values(row_ids): the logical values at those row ids, in the given order
values(c, row_ids) == [i \in 1..Len(row_ids) |-> c.data[row_ids[i] + 1]]

\* all_values(): values(0..R)
all_values(c) == c.data

\* the dictionary of a column: its distinct non-null values in ascending order
Dictionary(c) == SortedSeq(NonNullValues(c))

\* the encoded id of a logical value: 0 for NULL, else its 1-based dictionary rank
encode_value(c, v) ==
    IF v = NULL THEN 0
    ELSE Cardinality({w \in NonNullValues(c) : w <= v})

\* decode_id(id): the inverse of the encoded ids
decode_id(c, id) == IF id = 0 THEN NULL ELSE Dictionary(c)[id]

\* encoded_values(row_ids, buf)
encoded_values(c, row_ids) ==
    [i \in 1..Len(row_ids) |-> encode_value(c, c.data[row_ids[i] + 1])]

\* all_encoded_values(buf)
all_encoded_values(c) == [i \in 1..Len(c.data) |-> encode_value(c, c.data[i])]

\* grouped_row_ids(): for each encoded id in ascending order (entry id + 1 is
\* encoded id `id`), the bitmap of the rows holding that id
grouped_row_ids(c) ==
    [k \in 1..(Len(Dictionary(c)) + 1) |->
        {r \in AllRows(c) : encode_value(c, c.data[r + 1]) = k - 1}]

RECURSIVE SumSeq(_)
SumSeq(s) == IF s = <<>> THEN 0 ELSE Head(s) + SumSeq(Tail(s))

\* the non-null values of column c at the given row ids, one per row
NonNullAt(c, row_ids) == SelectSeq(values(c, row_ids), LAMBDA v : v # NULL)

SeqRange(s) == {s[i] : i \in 1..Len(s)}

\* count(row_ids): the number of non-null values at those rows
count(c, row_ids) == Len(NonNullAt(c, row_ids))

\* sum(row_ids): the sum of the non-null values, NULL when there is none
sum(c, row_ids) ==
    IF NonNullAt(c, row_ids) = <<>> THEN NULL ELSE SumSeq(NonNullAt(c, row_ids))

\* min(row_ids): the least non-null value, NULL when there is none
min(c, row_ids) ==
    IF NonNullAt(c, row_ids) = <<>> THEN NULL ELSE SetMin(SeqRange(NonNullAt(c, row_ids)))

\* max(row_ids): the greatest non-null value, NULL when there is none
max(c, row_ids) ==
    IF NonNullAt(c, row_ids) = <<>> THEN NULL ELSE SetMax(SeqRange(NonNullAt(c, row_ids)))

\* AggregateType
AggregateTypes == {"Count", "Sum", "Min", "Max", "First", "Last"}

\* AggregateResult::from(agg_type): the empty aggregator state
AggregateResult_from(typ) ==
    [typ |-> typ, value |-> IF typ = "Count" THEN 0 ELSE NULL]

\* AggregateResult::update(value): a null value has no effect
AggregateResult_update(agg, v) ==
    IF v = NULL THEN agg
    ELSE CASE agg.typ = "Count" -> [agg EXCEPT !.value = @ + 1]
           [] agg.typ = "Sum"   -> [agg EXCEPT !.value = IF @ = NULL THEN v ELSE @ + v]
           [] agg.typ = "Min"   -> [agg EXCEPT !.value = IF @ = NULL \/ v < @ THEN v ELSE @]
           [] agg.typ = "Max"   -> [agg EXCEPT !.value = IF @ = NULL \/ v > @ THEN v ELSE @]
           [] OTHER             -> agg

----------------------------------------------------------------------------
(* RowGroup::new and the metadata *)

\* the column names the model uses, in the order a BTreeMap iterates them
ColumnNames == <<"counter", "method", "region", "time">>

\* the names of a column map in BTreeMap iteration order
NamesInOrder(columns) == SelectSeq(ColumnNames, LAMBDA n : n \in DOMAIN columns)

IndexOf(s, x) == CHOOSE i \in 1..Len(s) : s[i] = x

\* the outcome of a call that fails an assertion or an unwrap
Panic == [panic |-> TRUE]

\* a constructor like RowGroup::new in which the row-count assertions may be
\* left out and the time range may be taken from the first time column
RowGroup_new_variant(rows, columns, check_rows, first_time) ==
    LET names == NamesInOrder(columns)
        timeIdx == {i \in 1..Len(names) : columns[names[i]].kind = "Time"}
    IN  IF \/ check_rows /\ \E n \in DOMAIN columns : num_rows(columns[n]) # rows
           \/ \E n \in DOMAIN columns : column_range(columns[n]) = <<>>
           \/ timeIdx = {}
        THEN Panic
        ELSE [ meta |->
                 [ rows |-> rows,
                   size |-> SumSeq([i \in 1..Len(names) |-> ColumnSize(columns[names[i]])]),
                   column_ranges |-> [n \in DOMAIN columns |-> column_range(columns[n])],
                   time_range |->
                       column_range(columns[names[IF first_time THEN SetMin(timeIdx)
                                                  ELSE SetMax(timeIdx)]]) ],
               columns |-> [i \in 1..Len(names) |-> columns[names[i]]],
               all_columns_by_name |-> [n \in DOMAIN columns |-> IndexOf(names, n)],
               tag_columns_by_name |->
                   [n \in {m \in DOMAIN columns : columns[m].kind = "Tag"} |-> IndexOf(names, n)],
               field_columns_by_name |->
                   [n \in {m \in DOMAIN columns : columns[m].kind = "Field"} |-> IndexOf(names, n)],
               time_column |-> SetMax(timeIdx) ]

\* a constructor without the assertions on the columns' row counts
RowGroup_new_unchecked_rows(rows, columns) == RowGroup_new_variant(rows, columns, FALSE, FALSE)

\* a constructor that keeps the time range of the first time column
RowGroup_new_first_time_range(rows, columns) == RowGroup_new_variant(rows, columns, TRUE, TRUE)

\* RowGroup::new(rows, columns): Panic when an assertion or unwrap fails,
\* else the row group.  Column indexes are 1-based positions in `columns`.
RowGroup_new(rows, columns) ==
    LET names == NamesInOrder(columns)
        timeIdx == {i \in 1..Len(names) : columns[names[i]].kind = "Time"}
    IN  IF \/ \E n \in DOMAIN columns : num_rows(columns[n]) # rows
           \/ \E n \in DOMAIN columns : column_range(columns[n]) = <<>>
           \/ timeIdx = {}
        THEN Panic
        ELSE [ meta |->
                 [ rows |-> rows,
                   size |-> SumSeq([i \in 1..Len(names) |-> ColumnSize(columns[names[i]])]),
                   column_ranges |-> [n \in DOMAIN columns |-> column_range(columns[n])],
                   time_range |-> column_range(columns[names[SetMax(timeIdx)]]) ],
               columns |-> [i \in 1..Len(names) |-> columns[names[i]]],
               all_columns_by_name |-> [n \in DOMAIN columns |-> IndexOf(names, n)],
               tag_columns_by_name |->
                   [n \in {m \in DOMAIN columns : columns[m].kind = "Tag"} |-> IndexOf(names, n)],
               field_columns_by_name |->
                   [n \in {m \in DOMAIN columns : columns[m].kind = "Field"} |-> IndexOf(names, n)],
               time_column |-> SetMax(timeIdx) ]

\* RowGroup::rows
rows(g) == g.meta.rows

\* RowGroup::column_by_name; the caller ensures the column exists
column_by_name(g, name) == g.columns[g.all_columns_by_name[name]]

\* RowGroup::time_column
time_column(g) == g.columns[g.time_column]

\* a pruner whose GT rule reads the column minimum instead of the maximum
could_satisfy_gt_on_min(meta, column_name, op, value) ==
    IF column_name \notin DOMAIN meta.column_ranges THEN FALSE
    ELSE LET column_min == meta.column_ranges[column_name][1]
             column_max == meta.column_ranges[column_name][2]
         IN  CASE op = "Equal"    -> column_min <= value /\ column_max >= value
               [] op = "NotEqual" -> (column_min # column_max) \/ column_max # value
               [] op = "GT"       -> column_min > value
               [] op = "GTE"      -> column_max >= value
               [] op = "LT"       -> column_min < value
               [] op = "LTE"      -> column_min <= value

\* a pruner that answers "could satisfy" for a column it has no range of
could_satisfy_unknown_column(meta, column_name, op, value) ==
    IF column_name \notin DOMAIN meta.column_ranges THEN TRUE
    ELSE LET column_min == meta.column_ranges[column_name][1]
             column_max == meta.column_ranges[column_name][2]
         IN  CASE op = "Equal"    -> column_min <= value /\ column_max >= value
               [] op = "NotEqual" -> (column_min # column_max) \/ column_max # value
               [] op = "GT"       -> column_max > value
               [] op = "GTE"      -> column_max >= value
               [] op = "LT"       -> column_min < value
               [] op = "LTE"      -> column_min <= value

\* MetaData::read_group_could_satisfy_predicate(column_name, (op, value))
read_group_could_satisfy_predicate(meta, column_name, op, value) ==
    IF column_name \notin DOMAIN meta.column_ranges THEN FALSE
    ELSE LET column_min == meta.column_ranges[column_name][1]
             column_max == meta.column_ranges[column_name][2]
         IN  CASE op = "Equal"    -> column_min <= value /\ column_max >= value
               [] op = "NotEqual" -> (column_min # column_max) \/ column_max # value
               [] op = "GT"       -> column_max > value
               [] op = "GTE"      -> column_max >= value
               [] op = "LT"       -> column_min < value
               [] op = "LTE"      -> column_min <= value

\* RowGroup::column_could_satisfy_predicate
column_could_satisfy_predicate(g, column_name, op, value) ==
    read_group_could_satisfy_predicate(g.meta, column_name, op, value)

----------------------------------------------------------------------------
(* Predicate planner and filter kernel.  A predicate is a record           *)
(* [col, op, value], the source's (column_name, (operator, value)).        *)

IsTimePredicate(p) == p.col = TIME_COLUMN_NAME

\* row_ids_from_predicates_with_time_range: the first two time predicates as
\* the two bounds of one range filter on the time column
row_ids_from_predicates_with_time_range(g, predicates) ==
    LET time_predicates == SelectSeq(predicates, IsTimePredicate)
    IN  row_ids_filter_range(time_column(g),
                             <<time_predicates[1].op, time_predicates[1].value>>,
                             <<time_predicates[2].op, time_predicates[2].value>>)

\* one iteration of the per-column loop on a Some(row_ids) result: seed the
\* accumulator by union when it is empty, then intersect
IntersectInto(result_row_ids, row_ids) ==
    (IF result_row_ids = {} THEN result_row_ids \cup row_ids ELSE result_row_ids)
        \cap row_ids

RECURSIVE PredicateLoop(_, _, _)
\* the per-column loop of row_ids_from_predicates and its final mapping
PredicateLoop(g, predicates, result_row_ids) ==
    IF predicates = <<>>
    THEN IF result_row_ids = {}
         THEN [tag |-> "All", ids |-> {}]
         ELSE [tag |-> "Some", ids |-> result_row_ids]
    ELSE LET p == Head(predicates)
             r == row_ids_filter(column_by_name(g, p.col), p.op, p.value)
         IN  CASE r.tag = "None" -> [tag |-> "None", ids |-> {}]
               [] r.tag = "Some" ->
                    PredicateLoop(g, Tail(predicates), IntersectInto(result_row_ids, r.ids))
               [] r.tag = "All"  -> PredicateLoop(g, Tail(predicates), result_row_ids)

\* RowGroup::row_ids_from_predicates
row_ids_from_predicates(g, predicates) ==
    IF Len(SelectSeq(predicates, IsTimePredicate)) = 2
    THEN LET time_pred_row_ids == row_ids_from_predicates_with_time_range(g, predicates)
             filtered_predicates == SelectSeq(predicates, LAMBDA p : ~IsTimePredicate(p))
         IN  IF time_pred_row_ids.tag = "None" THEN time_pred_row_ids
             ELSE PredicateLoop(g, filtered_predicates, time_pred_row_ids.ids)
    ELSE PredicateLoop(g, predicates, {})

\* RowGroup::materialise_rows: one (name, values) entry per requested column
materialise_rows(g, names, row_ids) ==
    CASE row_ids.tag = "None" -> <<>>
      [] row_ids.tag = "Some" ->
           [i \in 1..Len(names) |->
               <<names[i], values(column_by_name(g, names[i]), to_vec(row_ids.ids))>>]
      [] row_ids.tag = "All"  ->
           [i \in 1..Len(names) |->
               <<names[i], values(column_by_name(g, names[i]), to_vec(0..(rows(g) - 1)))>>]

\* RowGroup::read_filter
read_filter(g, columns, predicates) ==
    materialise_rows(g, columns, row_ids_from_predicates(g, predicates))

----------------------------------------------------------------------------
(* Packed group keys.  The source packs 32-bit encoded ids into the lanes   *)
(* of a u128; the model keeps the layout (four lanes in one word, lane i    *)
(* at bit offset i * lane width) with lanes of LaneBits bits.               *)

\* width in bits of one lane of the packed key (u32 in the source)
LaneBits == 2

\* number of lanes of the packed key: 128 / 32
Lanes == 4

RECURSIVE Pow2(_)
Pow2(n) == IF n = 0 THEN 1 ELSE 2 * Pow2(n - 1)

\* one more than the largest lane value (u32::MAX + 1)
LaneModulus == Pow2(LaneBits)

\* one more than the largest packed key (2^128)
KeyModulus == Pow2(Lanes * LaneBits)

RECURSIVE BitOr(_, _)
\* bitwise or of two naturals
BitOr(a, b) ==
    IF a = 0 THEN b
    ELSE IF b = 0 THEN a
    ELSE (IF a % 2 = 1 \/ b % 2 = 1 THEN 1 ELSE 0) + 2 * BitOr(a \div 2, b \div 2)

\* a << n on a word of Lanes * LaneBits bits
ShiftLeft(a, n) == (a * Pow2(n)) % KeyModulus

\* a >> n
ShiftRight(a, n) == a \div Pow2(n)

\* a packing that shifts by the position alone, not by whole lanes
pack_shift_by_pos(packed_value, encoded_id, pos) ==
    BitOr(packed_value, ShiftLeft(encoded_id, pos))

\* pack_u32_in_u128(packed_value, encoded_id, pos)
pack_u32_in_u128(packed_value, encoded_id, pos) ==
    BitOr(packed_value, ShiftLeft(encoded_id, LaneBits * pos))

\* the lane at position i of a packed key: (group_key_packed >> (i * 32)) as u32
UnpackLane(group_key_packed, i) == ShiftRight(group_key_packed, i * LaneBits) % LaneModulus

\* unpack_u128_group_key(group_key_packed, n, dst): dst resized to n, then
\* every entry overwritten with its lane
unpack_u128_group_key(group_key_packed, n, dst) ==
    [i \in 1..n |-> UnpackLane(group_key_packed, i - 1)]

RECURSIVE PackFrom(_, _, _)
\* the loop `for (i, id) in ids.enumerate() { key = pack_u32_in_u128(key, id, i) }`
\* from lane `pos` on
PackFrom(packed_value, ids, pos) ==
    IF ids = <<>> THEN packed_value
    ELSE PackFrom(pack_u32_in_u128(packed_value, Head(ids), pos), Tail(ids), pos + 1)

----------------------------------------------------------------------------
(* read_group and its kernels.  An aggregate is a pair <<column, type>>;    *)
(* a result is [group_columns, aggregate_columns, group_keys, aggregates].  *)

\* the aggregator states of a new group, updated with the values of `row`
NewGroupAggs(aggregate_columns, aggregate_columns_data, row) ==
    [i \in 1..Len(aggregate_columns) |->
        IF i <= Len(aggregate_columns_data)
        THEN AggregateResult_update(AggregateResult_from(aggregate_columns[i][2]),
                                    aggregate_columns_data[i][row])
        ELSE AggregateResult_from(aggregate_columns[i][2])]

\* the aggregator states of an existing group, updated with the values of `row`
UpdateGroupAggs(group_key_aggs, aggregate_columns_data, row) ==
    [i \in 1..Len(group_key_aggs) |->
        IF i <= Len(aggregate_columns_data)
        THEN AggregateResult_update(group_key_aggs[i], aggregate_columns_data[i][row])
        ELSE group_key_aggs[i]]

RECURSIVE HashRows_always_insert(_, _, _, _, _)
\* a row loop that inserts an entry for every row without looking its key up
HashRows_always_insert(keys, aggregate_columns, aggregate_columns_data, row, groups) ==
    IF row > Len(keys) THEN groups
    ELSE HashRows_always_insert(keys, aggregate_columns, aggregate_columns_data, row + 1,
             Append(groups,
                 <<keys[row],
                   NewGroupAggs(aggregate_columns, aggregate_columns_data, row)>>))

RECURSIVE HashRows(_, _, _, _, _)
\* the row loop of the hashing kernels: `groups` is the hash map as a list of
\* <<key, aggregates>> entries in insertion order; keys[row] is the key of row
HashRows(keys, aggregate_columns, aggregate_columns_data, row, groups) ==
    IF row > Len(keys) THEN groups
    ELSE LET hit == {i \in 1..Len(groups) : groups[i][1] = keys[row]}
         IN  HashRows(keys, aggregate_columns, aggregate_columns_data, row + 1,
                 IF hit # {}
                 THEN [groups EXCEPT ![CHOOSE i \in hit : TRUE] =
                          <<@[1], UpdateGroupAggs(@[2], aggregate_columns_data, row)>>]
                 ELSE Append(groups,
                          <<keys[row],
                            NewGroupAggs(aggregate_columns, aggregate_columns_data, row)>>))

\* HashMap::into_iter: the entries in an order the map chooses; `iter` is a
\* permutation of 1..n with n at least the number of entries
HashIter(groups, iter) ==
    LET order == SelectSeq(iter, LAMBDA k : k <= Len(groups))
    IN  [i \in 1..Len(groups) |-> groups[order[i]]]

\* RowGroup::read_group_hash_with_vec_key
read_group_hash_with_vec_key(g, dst, groupby_encoded_ids, aggregate_columns_data, iter) ==
    LET total_rows == Len(groupby_encoded_ids[1])
        keys == [row \in 1..total_rows |->
                    [j \in 1..Len(groupby_encoded_ids) |-> groupby_encoded_ids[j][row]]]
        groups == HashIter(HashRows(keys, dst.aggregate_columns,
                                    aggregate_columns_data, 1, <<>>), iter)
    IN  [dst EXCEPT
            !.group_keys = [k \in 1..Len(groups) |->
                [col_idx \in 1..Len(groups[k][1]) |->
                    decode_id(column_by_name(g, dst.group_columns[col_idx]),
                              groups[k][1][col_idx])]],
            !.aggregates = [k \in 1..Len(groups) |-> groups[k][2]]]

\* RowGroup::read_group_hash_with_u128_key
read_group_hash_with_u128_key(g, dst, groupby_encoded_ids, aggregate_columns_data, iter) ==
    LET total_rows == Len(groupby_encoded_ids[1])
        keys == [row \in 1..total_rows |->
                    PackFrom(0, [j \in 1..Len(groupby_encoded_ids) |->
                                    groupby_encoded_ids[j][row]], 0)]
        groups == HashIter(HashRows(keys, dst.aggregate_columns,
                                    aggregate_columns_data, 1, <<>>), iter)
    IN  IF Len(dst.group_columns) > Lanes THEN Panic
        ELSE [dst EXCEPT
            !.group_keys = [k \in 1..Len(groups) |->
                [col_idx \in 1..Len(dst.group_columns) |->
                    decode_id(column_by_name(g, dst.group_columns[col_idx]),
                              UnpackLane(groups[k][1], col_idx - 1))]],
            !.aggregates = [k \in 1..Len(groups) |-> groups[k][2]]]

\* RowGroup::read_group_with_hashing
read_group_with_hashing(g, dst, groupby_encoded_ids, aggregate_columns_data, iter) ==
    IF Len(dst.group_columns) <= 4
    THEN read_group_hash_with_u128_key(g, dst, groupby_encoded_ids, aggregate_columns_data, iter)
    ELSE read_group_hash_with_vec_key(g, dst, groupby_encoded_ids, aggregate_columns_data, iter)

RECURSIVE SingleColumnRows(_, _, _, _, _)
\* the row loop of the single-column kernel: `groups` is the vector of
\* optional aggregator states, entry id + 1 for encoded id `id` (<<>> is None)
SingleColumnRows(groupby_encoded_ids, aggregate_columns, aggregate_columns_data, row, groups) ==
    IF row > Len(groupby_encoded_ids) THEN groups
    ELSE LET idx == groupby_encoded_ids[row] + 1
         IN  SingleColumnRows(groupby_encoded_ids, aggregate_columns,
                 aggregate_columns_data, row + 1,
                 [groups EXCEPT ![idx] =
                     IF @ # <<>>
                     THEN UpdateGroupAggs(@, aggregate_columns_data, row)
                     ELSE NewGroupAggs(aggregate_columns, aggregate_columns_data, row)])

\* RowGroup::read_group_single_group_column
read_group_single_group_column(g, dst, groupby_encoded_ids, aggregate_columns_data) ==
    IF Len(dst.group_columns) # Len(aggregate_columns_data) THEN Panic
    ELSE IF groupby_encoded_ids = <<>> THEN Panic
    ELSE
    LET column == column_by_name(g, dst.group_columns[1])
        required_groups == SetMax(SeqRange(groupby_encoded_ids)) + 1
        groups == SingleColumnRows(groupby_encoded_ids, dst.aggregate_columns,
                      aggregate_columns_data, 1, [k \in 1..required_groups |-> <<>>])
        present == SelectSeq([k \in 1..required_groups |-> k], LAMBDA k : groups[k] # <<>>)
    IN  [dst EXCEPT
            !.group_keys = [k \in 1..Len(present) |-> <<decode_id(column, present[k] - 1)>>],
            !.aggregates = [k \in 1..Len(present) |-> groups[present[k]]]]

RECURSIVE CartesianProduct_first_fastest(_)
\* a Cartesian product whose first position varies fastest
CartesianProduct_first_fastest(sizes) ==
    IF sizes = <<>> THEN << <<>> >>
    ELSE LET rest == CartesianProduct_first_fastest(Tail(sizes))
             h == Head(sizes)
         IN  [k \in 1..(h * Len(rest)) |->
                 << (k - 1) % h >> \o rest[((k - 1) \div h) + 1]]

RECURSIVE CartesianProduct(_)
\* multi_cartesian_product of the ranges 0..sizes[i]-1, in the order itertools
\* yields it: lexicographic, the last position varying fastest
CartesianProduct(sizes) ==
    IF sizes = <<>> THEN << <<>> >>
    ELSE LET rest == CartesianProduct(Tail(sizes))
             n == Len(rest)
         IN  [k \in 1..(Head(sizes) * n) |->
                 << (k - 1) \div n >> \o rest[((k - 1) % n) + 1]]

RECURSIVE IntersectGroup(_, _, _, _)
\* the inner loop of the all-RLE kernel from column i on: the intersection of
\* the bitmaps of a candidate key, {} as soon as one intersection is empty
IntersectGroup(encoded_groups, group_key, i, aggregate_row_ids) ==
    IF i > Len(group_key) THEN aggregate_row_ids
    ELSE LET other == encoded_groups[i][group_key[i] + 1]
         IN  IF Cardinality(aggregate_row_ids \cap other) > 0
             THEN IntersectGroup(encoded_groups, group_key, i + 1, aggregate_row_ids \cap other)
             ELSE {}

\* an all-RLE aggregate that answers First and Last with the value at the
\* least and the greatest row id of the group
RleAggregate_first_last(agg_col, typ, aggregate_row_ids) ==
    CASE typ = "Count" -> [typ |-> "Count", value |-> count(agg_col, to_vec(aggregate_row_ids))]
      [] typ = "Min"   -> [typ |-> "Min", value |-> min(agg_col, to_vec(aggregate_row_ids))]
      [] typ = "Max"   -> [typ |-> "Max", value |-> max(agg_col, to_vec(aggregate_row_ids))]
      [] typ = "Sum"   -> [typ |-> "Sum", value |-> sum(agg_col, to_vec(aggregate_row_ids))]
      [] typ = "First" -> [typ |-> "First", value |-> agg_col.data[SetMin(aggregate_row_ids) + 1]]
      [] typ = "Last"  -> [typ |-> "Last", value |-> agg_col.data[SetMax(aggregate_row_ids) + 1]]

\* the aggregate of one group of the all-RLE kernel; First and Last are todo!()
RleAggregate(agg_col, typ, aggregate_row_ids) ==
    CASE typ = "Count" -> [typ |-> "Count", value |-> count(agg_col, to_vec(aggregate_row_ids))]
      [] typ = "Min"   -> [typ |-> "Min", value |-> min(agg_col, to_vec(aggregate_row_ids))]
      [] typ = "Max"   -> [typ |-> "Max", value |-> max(agg_col, to_vec(aggregate_row_ids))]
      [] typ = "Sum"   -> [typ |-> "Sum", value |-> sum(agg_col, to_vec(aggregate_row_ids))]
      [] OTHER         -> Panic

\* the 'outer loop of the all-RLE kernel over the candidate keys from k on:
\* the keys with a non-empty intersection are emitted in the order of the
\* loop, and an aggregate that panics ends the call
RleGroups(g, dst, encoded_groups, group_keys, k) ==
    LET aggregate_row_ids(group_key) ==
            IF encoded_groups[1][group_key[1] + 1] = {} THEN {}
            ELSE IntersectGroup(encoded_groups, group_key, 2,
                                encoded_groups[1][group_key[1] + 1])
        aggregates(group_key) ==
            [i \in 1..Len(dst.aggregate_columns) |->
                RleAggregate(column_by_name(g, dst.aggregate_columns[i][1]),
                             dst.aggregate_columns[i][2], aggregate_row_ids(group_key))]
        emitted == SelectSeq(SubSeq(group_keys, k, Len(group_keys)),
                             LAMBDA group_key : aggregate_row_ids(group_key) # {})
    IN  IF \E n \in 1..Len(emitted) :
               \E i \in 1..Len(dst.aggregate_columns) : aggregates(emitted[n])[i] = Panic
        THEN Panic
        ELSE [dst EXCEPT
                !.group_keys = @ \o
                    [n \in 1..Len(emitted) |->
                        [col_idx \in 1..Len(emitted[n]) |->
                            decode_id(column_by_name(g, dst.group_columns[col_idx]),
                                      emitted[n][col_idx])]],
                !.aggregates = @ \o
                    [n \in 1..Len(emitted) |-> aggregates(emitted[n])]]

\* RowGroup::read_group_all_rows_all_rle
read_group_all_rows_all_rle(g, dst) ==
    LET encoded_groups ==
            [i \in 1..Len(dst.group_columns) |->
                grouped_row_ids(column_by_name(g, dst.group_columns[i]))]
        group_keys == CartesianProduct([i \in 1..Len(encoded_groups) |-> Len(encoded_groups[i])])
    IN  RleGroups(g, dst, encoded_groups, group_keys, 1)

\* RowGroup::read_group; `iter` is the iteration order of the kernels' hash map
read_group(g, predicates, group_columns, aggregates, iter) ==
    LET result == [group_columns |-> group_columns,
                   aggregate_columns |-> aggregates,
                   group_keys |-> <<>>,
                   aggregates |-> <<>>]
        all_group_cols_pre_computed ==
            \A i \in 1..Len(group_columns) : column_by_name(g, group_columns[i]).pre
        row_ids == row_ids_from_predicates(g, predicates)
        groupby_encoded_ids ==
            [i \in 1..Len(group_columns) |->
                IF row_ids.tag = "Some"
                THEN encoded_values(column_by_name(g, group_columns[i]), to_vec(row_ids.ids))
                ELSE all_encoded_values(column_by_name(g, group_columns[i]))]
        aggregate_columns_data ==
            [i \in 1..Len(aggregates) |->
                IF row_ids.tag = "Some"
                THEN values(column_by_name(g, aggregates[i][1]), to_vec(row_ids.ids))
                ELSE all_values(column_by_name(g, aggregates[i][1]))]
    IN  IF predicates = <<>> /\ all_group_cols_pre_computed
        THEN read_group_all_rows_all_rle(g, result)
        ELSE IF row_ids.tag = "None" THEN result
        ELSE IF Len(group_columns) = 1
        THEN read_group_single_group_column(g, result, groupby_encoded_ids[1],
                                            aggregate_columns_data)
        ELSE read_group_with_hashing(g, result, groupby_encoded_ids,
                                     aggregate_columns_data, iter)

----------------------------------------------------------------------------
(* The row groups and the requests explored *)

\* the longest predicate list a request carries
MaxPreds == 3

\* logical values of the tag columns (ranks of the strings)
TagValues == {1, 2}

Rows == 1..MaxRows

\* time column data: row r holds time r + 1
TimeData == {[i \in Rows |-> i]}

\* field column data: distinct values, the first of them null
CounterData == {[i \in Rows |-> IF i = 1 THEN NULL ELSE i]}

\* the column maps handed to RowGroup::new: one time column, two tag columns
\* (region nullable, and with or without pre-computed row ids), one field column
ColumnMaps ==
    { [ time    |-> [kind |-> "Time",  data |-> t, pre |-> FALSE],
        region  |-> [kind |-> "Tag",   data |-> r, pre |-> rle],
        method  |-> [kind |-> "Tag",   data |-> m, pre |-> TRUE],
        counter |-> [kind |-> "Field", data |-> c, pre |-> FALSE] ] :
        t \in TimeData,
        r \in [Rows -> TagValues \cup {NULL}],
        rle \in BOOLEAN,
        m \in [Rows -> TagValues],
        c \in CounterData }

\* the row groups RowGroup::new constructs from them
RowGroups == {RowGroup_new(MaxRows, cm) : cm \in ColumnMaps} \ {Panic}

\* the predicates of the requests
Predicates ==
    { [col |-> "time",   op |-> "GTE",      value |-> 2],
      [col |-> "time",   op |-> "LT",       value |-> 3],
      [col |-> "time",   op |-> "LT",       value |-> MaxRows + 1],
      [col |-> "time",   op |-> "GT",       value |-> MaxRows],
      [col |-> "time",   op |-> "GTE",      value |-> 1],
      [col |-> "region", op |-> "Equal",    value |-> 1],
      [col |-> "region", op |-> "NotEqual", value |-> 1],
      [col |-> "method", op |-> "Equal",    value |-> 1],
      [col |-> "method", op |-> "Equal",    value |-> 2] }

\* predicate lists of up to MaxPreds predicates
PredicateLists == UNION {[1..n -> Predicates] : n \in 0..MaxPreds}

\* the predicate lists of the read_group requests: at most two predicates, a
\* pair being a time range or two predicates on tag columns
GroupPredicateLists ==
    {l \in PredicateLists :
        /\ Len(l) <= 2
        /\ Len(l) = 2 => (IsTimePredicate(l[1]) <=> IsTimePredicate(l[2]))}

\* the column lists of the read_filter requests
ColumnLists == { <<"time", "counter", "region">> }

\* the grouping columns of the read_group requests
GroupColumnLists ==
    { <<"region">>, <<"region", "method">>,
      <<"region", "method", "region", "method", "region">> }

\* the aggregates of the read_group requests
AggregateLists ==
    { << <<"counter", "Count">> >>, << <<"counter", "Sum">> >>,
      << <<"counter", "Min">> >>,   << <<"counter", "Max">> >>,
      << <<"counter", "Sum">>, <<"counter", "Count">> >> }

\* the columns and values of the pruner requests ("az" is no column)
PrunerColumns == {"time", "region", "method", "counter", "az"}
PrunerValues == 1..(MaxRows + 1)

\* all orders in which a hash map of n entries can be iterated
IterOrders(n) == {p \in [1..n -> 1..n] : \A i, j \in 1..n : p[i] = p[j] => i = j}

Identity(n) == [i \in 1..n |-> i]

Idle == [op |-> "idle"]

----------------------------------------------------------------------------
(* The Server (server/src/server.rs).  A map (BTreeMap) is a function whose *)
(* domain is its key set.                                                    *)

\* const SERVER_ID_NOT_SET: a server id of 0 means no id has been configured
SERVER_ID_NOT_SET == 0

\* const STARTING_SEQUENCE: the first sequence number of a new database
STARTING_SEQUENCE == 1

EmptyMap == [k \in {} |-> 0]

\* BTreeMap::insert: an existing entry under the key is replaced
Insert(map, key, value) ==
    [k \in DOMAIN map \cup {key} |-> IF k = key THEN value ELSE map[k]]

\* Config::default()
Config_default == [databases |-> EmptyMap, host_groups |-> EmptyMap]

\* Server::new(connection_manager, store) with an empty in-memory object
\* store; remotes holds, per host, the writes its TestRemoteServer received
\* for each database name.
Server_new ==
    [id |-> SERVER_ID_NOT_SET,
     config |-> Config_default,
     store |-> EmptyMap,
     remotes |-> EmptyMap]

\* The tasks that call the Server concurrently; a task that is in no call
\* keeps the result of its last one
Tasks == {"t1", "t2"}
NoResult == [none |-> TRUE]
IdleTask(result) == [pc |-> "idle", result |-> result]
NoTasks == [t \in Tasks |-> IdleTask(NoResult)]

\* RwLock::new(Config::default()): no guard is held and no task waits
RwLock_new ==
    [readers |-> [t \in Tasks |-> 0], writer |-> "", queue |-> <<>>]

----------------------------------------------------------------------------
(* The calls on the row group *)

\* row_ids_from_predicates on a predicate list
RowIdsFromPredicates ==
    /\ call = Idle
    /\ \E predicates \in PredicateLists :
         call' = [op |-> "row_ids_from_predicates",
                  predicates |-> predicates,
                  result |-> row_ids_from_predicates(rg, predicates)]
    /\ UNCHANGED <<rg, server, tasks, lock>>

\* a read_filter that consumes the values it returns: the rows it read are
\* left null in the row group
ReadFilterConsuming ==
    /\ call = Idle
    /\ \E columns \in ColumnLists, predicates \in PredicateLists :
         call' = [op |-> "read_filter",
                  columns |-> columns,
                  predicates |-> predicates,
                  result |-> read_filter(rg, columns, predicates)]
    /\ rg' = [rg EXCEPT !.columns[rg.all_columns_by_name["region"]].data =
                            [i \in DOMAIN @ |-> NULL]]
    /\ UNCHANGED <<server, tasks, lock>>

\* read_filter(columns, predicates)
ReadFilter ==
    /\ call = Idle
    /\ \E columns \in ColumnLists, predicates \in PredicateLists :
         call' = [op |-> "read_filter",
                  columns |-> columns,
                  predicates |-> predicates,
                  result |-> read_filter(rg, columns, predicates)]
    /\ UNCHANGED <<rg, server, tasks, lock>>

\* whether read_group dispatches the request to a hashing kernel
UsesHashMap(g, predicates, group_columns) ==
    /\ Len(group_columns) # 1
    /\ ~(/\ predicates = <<>>
         /\ \A i \in 1..Len(group_columns) : column_by_name(g, group_columns[i]).pre)

\* read_group(predicates, group_columns, aggregates); the hash map of the
\* hashing kernels iterates in any order
ReadGroup ==
    /\ call = Idle
    /\ \E predicates \in GroupPredicateLists, group_columns \in GroupColumnLists,
          aggregates \in AggregateLists :
         \E first \in {read_group(rg, predicates, group_columns, aggregates,
                                   Identity(MaxRows))} :
           \E iter \in IterOrders(IF UsesHashMap(rg, predicates, group_columns)
                                      /\ first # Panic
                                   THEN Len(first.group_keys) ELSE 1) :
               call' = [op |-> "read_group",
                        predicates |-> predicates,
                        group_columns |-> group_columns,
                        aggregates |-> aggregates,
                        result |-> IF \A i \in DOMAIN iter : iter[i] = i THEN first
                                   ELSE read_group(rg, predicates, group_columns,
                                                   aggregates, iter)]
    /\ UNCHANGED <<rg, server, tasks, lock>>

\* column_could_satisfy_predicate(column_name, (op, value))
ColumnCouldSatisfyPredicate ==
    /\ call = Idle
    /\ \E column_name \in PrunerColumns, op \in Operators, value \in PrunerValues :
         call' = [op |-> "column_could_satisfy_predicate",
                  column_name |-> column_name,
                  predicate |-> <<op, value>>,
                  result |-> column_could_satisfy_predicate(rg, column_name, op, value)]
    /\ UNCHANGED <<rg, server, tasks, lock>>

\* the caller drops the result of the last call
Return ==
    /\ call # Idle
    /\ call' = Idle
    /\ UNCHANGED <<rg, server, tasks, lock>>

\* the state after construction: a row group and no call made yet
Init ==
    /\ rg \in RowGroups
    /\ call = Idle
    /\ server = Server_new
    /\ tasks = NoTasks
    /\ lock = RwLock_new

Next ==
    \/ RowIdsFromPredicates
    \/ ReadFilter
    \/ ReadGroup
    \/ ColumnCouldSatisfyPredicate
    \/ Return

Spec == Init /\ [][Next]_vars

\* the pruner alone
NextPruner == ColumnCouldSatisfyPredicate \/ Return
SpecPruner == Init /\ [][NextPruner]_vars

----------------------------------------------------------------------------
(* Packing and unpacking group keys, step by step *)

\* pack the next encoded id into the key, at the position after the last one
PackNext ==
    /\ call.op = "pack"
    /\ Len(call.ids) < Lanes
    /\ \E encoded_id \in 0..(LaneModulus - 1) :
         call' = [op |-> "pack",
                  ids |-> Append(call.ids, encoded_id),
                  packed |-> pack_u32_in_u128(call.packed, encoded_id, Len(call.ids))]
    /\ UNCHANGED <<rg, server, tasks, lock>>

\* unpack_u128_group_key(packed, n, vec![]) on the key packed so far
Unpack ==
    /\ call.op = "pack"
    /\ call' = [op |-> "unpack",
                ids |-> call.ids,
                packed |-> call.packed,
                unpacked |-> unpack_u128_group_key(call.packed, Len(call.ids), <<>>)]
    /\ UNCHANGED <<rg, server, tasks, lock>>

\* some row group; the group key functions do not read it
SomeRowGroup == CHOOSE g \in RowGroups : TRUE

InitPack ==
    /\ rg = SomeRowGroup
    /\ call = [op |-> "pack", ids |-> <<>>, packed |-> 0]
    /\ server = Server_new
    /\ tasks = NoTasks
    /\ lock = RwLock_new
NextPack == PackNext \/ Unpack
SpecPack == InitPack /\ [][NextPack]_vars

----------------------------------------------------------------------------
(* GroupKey ordering *)

\* the most values a compared group key holds
MaxArity == 2

\* Value::partial_cmp on the logical values of group keys (NULL sorts first)
partial_cmp(a, b) == IF a < b THEN "Less" ELSE IF a > b THEN "Greater" ELSE "Equal"

RECURSIVE CmpFrom(_, _, _)
\* the loop of GroupKey::cmp from position i on: the first comparable position
\* decides
CmpFrom(self, other, i) ==
    IF i > Len(self) THEN "Equal"
    ELSE IF partial_cmp(self[i], other[i]) # "None"
         THEN partial_cmp(self[i], other[i])
         ELSE CmpFrom(self, other, i + 1)

\* <GroupKey as Ord>::cmp
GroupKey_cmp(self, other) ==
    IF Len(self) # Len(other) THEN Panic ELSE CmpFrom(self, other, 1)

\* group keys of up to MaxArity values
GroupKeys == UNION {[1..n -> TagValues \cup {NULL}] : n \in 1..MaxArity}

\* compare two group keys
Cmp ==
    /\ call = Idle
    /\ \E self \in GroupKeys, other \in GroupKeys :
         call' = [op |-> "cmp", self |-> self, other |-> other,
                  result |-> GroupKey_cmp(self, other)]
    /\ UNCHANGED <<rg, server, tasks, lock>>

InitKey ==
    /\ rg = SomeRowGroup
    /\ call = Idle
    /\ server = Server_new
    /\ tasks = NoTasks
    /\ lock = RwLock_new
NextKey == Cmp \/ Return
SpecKey == InitKey /\ [][NextKey]_vars

----------------------------------------------------------------------------
(* Reference semantics of a query, stated on the rows themselves *)

\* row r of g satisfies predicate p
Satisfies(g, p, r) == Holds(p.op, column_by_name(g, p.col).data[r + 1], p.value)

\* the row ids of g that satisfy every predicate of the list
MatchingRows(g, predicates) ==
    {r \in 0..(rows(g) - 1) : \A i \in 1..Len(predicates) : Satisfies(g, predicates[i], r)}

\* the set of row ids a planner result stands for
RowSet(g, row_ids) ==
    CASE row_ids.tag = "None" -> {}
      [] row_ids.tag = "All"  -> 0..(rows(g) - 1)
      [] row_ids.tag = "Some" -> row_ids.ids

\* the values of the named columns at the matching rows, in row order
ExpectedRows(g, columns, predicates) ==
    [i \in 1..Len(columns) |->
        <<columns[i],
          [k \in 1..Cardinality(MatchingRows(g, predicates)) |->
              column_by_name(g, columns[i]).data[to_vec(MatchingRows(g, predicates))[k] + 1]]>>]

\* the grouping values of row r
KeyOfRow(g, group_columns, r) ==
    [i \in 1..Len(group_columns) |-> column_by_name(g, group_columns[i]).data[r + 1]]

\* one aggregate computed over a set of rows
ExpectedAggregate(g, aggregate, group_rows) ==
    LET c == column_by_name(g, aggregate[1])
        present == {c.data[r + 1] : r \in group_rows} \ {NULL}
    IN  [typ |-> aggregate[2],
         value |-> CASE aggregate[2] = "Count" ->
                          Cardinality({r \in group_rows : c.data[r + 1] # NULL})
                     [] aggregate[2] = "Sum" ->
                          IF present = {} THEN NULL
                          ELSE SumSeq([k \in 1..Cardinality(group_rows) |->
                                          c.data[to_vec(group_rows)[k] + 1]])
                     [] aggregate[2] = "Min" -> IF present = {} THEN NULL ELSE SetMin(present)
                     [] aggregate[2] = "Max" -> IF present = {} THEN NULL ELSE SetMax(present)]

\* the (group key, aggregates) pairs of the groups among the matching rows
ExpectedGroups(g, predicates, group_columns, aggregates) ==
    LET matching == MatchingRows(g, predicates)
    IN  {<<KeyOfRow(g, group_columns, r),
           [i \in 1..Len(aggregates) |->
               ExpectedAggregate(g, aggregates[i],
                   {q \in matching : KeyOfRow(g, group_columns, q) = KeyOfRow(g, group_columns, r)})]>>
         : r \in matching}

\* the (group key, aggregates) pairs a read_group result holds
ResultGroups(result) ==
    {<<result.group_keys[k], result.aggregates[k]>> : k \in 1..Len(result.group_keys)}

----------------------------------------------------------------------------
(* Claims about the query paths *)

\* C1: read_filter returns, for each requested column in request order, the
\* values of exactly the rows that satisfy every predicate, in row order.
C1_FilterSoundness ==
    call.op = "read_filter" =>
        IF MatchingRows(rg, call.predicates) = {}
        THEN \A i \in 1..Len(call.result) : call.result[i][2] = <<>>
        ELSE call.result = ExpectedRows(rg, call.columns, call.predicates)

\* C2: read_group emits exactly the distinct grouping tuples of the rows that
\* satisfy the predicates, once each, every aggregate being the aggregate
\* over exactly the rows of its group.
C2_GroupSoundness ==
    call.op = "read_group" =>
        /\ call.result # Panic
        /\ Len(call.result.group_keys) = Len(call.result.aggregates)
        /\ Len(call.result.group_keys) = Cardinality(ResultGroups(call.result))
        /\ ResultGroups(call.result) =
               ExpectedGroups(rg, call.predicates, call.group_columns, call.aggregates)

\* the lists holding the same predicates in another order
Reorderings(predicates) ==
    {[i \in 1..Len(predicates) |-> predicates[f[i]]] :
        f \in {h \in [1..Len(predicates) -> 1..Len(predicates)] :
                  \A i, j \in 1..Len(predicates) : h[i] = h[j] => i = j}}

\* C3: the rows selected for a predicate list do not depend on the order of
\* the predicates in the list.
C3_PredicateCommutativity ==
    call.op = "row_ids_from_predicates" =>
        \A reordered \in Reorderings(call.predicates) :
            RowSet(rg, row_ids_from_predicates(rg, reordered)) = RowSet(rg, call.result)

\* C4: the planner answers All only when every predicate matched all rows
\* (or there is none), and answers Some with the non-empty intersection of
\* the row sets of the predicates otherwise.
C4_FinalMapping ==
    call.op = "row_ids_from_predicates" =>
        /\ call.result.tag = "All" =>
               \A i \in 1..Len(call.predicates) :
                   MatchingRows(rg, <<call.predicates[i]>>) = 0..(rows(rg) - 1)
        /\ call.result.tag = "Some" =>
               /\ call.result.ids # {}
               /\ call.result.ids = MatchingRows(rg, call.predicates)

\* C5: when no row satisfies all predicates, read_filter returns no rows and
\* read_group returns no group keys and no aggregates, its group_columns and
\* aggregate_columns still being the requested ones.
C5_EmptyResults ==
    /\ (call.op = "read_filter" /\ MatchingRows(rg, call.predicates) = {}) =>
           \A i \in 1..Len(call.result) : call.result[i][2] = <<>>
    /\ (call.op = "read_group" /\ MatchingRows(rg, call.predicates) = {}) =>
           /\ call.result # Panic
           /\ call.result.group_keys = <<>>
           /\ call.result.aggregates = <<>>
           /\ call.result.group_columns = call.group_columns
           /\ call.result.aggregate_columns = call.aggregates

\* a time range that covers every row of the row group, as the second
\* request of the kernel comparison passes it
CoveringTimeRange ==
    <<[col |-> TIME_COLUMN_NAME, op |-> "GTE", value |-> 1],
      [col |-> TIME_COLUMN_NAME, op |-> "LT", value |-> MaxRows + 1]>>

\* C6: with all grouping columns pre-computed, the request without predicates
\* (all-RLE kernel) and the request with a covering time range (hash or
\* single-column kernel) give the same set of (group key, aggregates) pairs.
C6_KernelEquivalence ==
    ( /\ call.op = "read_group"
      /\ call.predicates = CoveringTimeRange
      /\ \A i \in 1..Len(call.group_columns) : column_by_name(rg, call.group_columns[i]).pre ) =>
        LET rle == read_group(rg, <<>>, call.group_columns, call.aggregates, Identity(1))
        IN  /\ rle # Panic
            /\ call.result # Panic
            /\ ResultGroups(call.result) = ResultGroups(rle)

----------------------------------------------------------------------------
(* Claims about the metadata pruner *)

\* C7: whenever column_could_satisfy_predicate answers false for a column of
\* the row group, no row of the row group satisfies the predicate on that
\* column.
C7_PrunerSafety ==
    ( /\ call.op = "column_could_satisfy_predicate"
      /\ call.result = FALSE
      /\ call.column_name \in DOMAIN rg.all_columns_by_name ) =>
        \A r \in 0..(rows(rg) - 1) :
            ~Holds(call.predicate[1], column_by_name(rg, call.column_name).data[r + 1],
                   call.predicate[2])

\* the pruner rejected a "not equal" predicate on a column that holds nulls
C7_Witness ==
    /\ call.op = "column_could_satisfy_predicate"
    /\ call.result = FALSE
    /\ call.predicate[1] = "NotEqual"
    /\ call.column_name \in DOMAIN rg.all_columns_by_name
    /\ \E r \in 0..(rows(rg) - 1) : column_by_name(rg, call.column_name).data[r + 1] = NULL

\* the answer the rules give for (op, v) on a column whose range is <<lo, hi>>
PrunerRule(op, v, lo, hi) ==
    CASE op = "Equal"    -> lo <= v /\ v <= hi
      [] op = "NotEqual" -> lo # hi \/ hi # v
      [] op = "GT"       -> hi > v
      [] op = "GTE"      -> hi >= v
      [] op = "LT"       -> lo < v
      [] op = "LTE"      -> lo <= v

\* C8: column_could_satisfy_predicate answers false for a column name that
\* is not in the row group, and otherwise answers as the rule of the operator
\* says on the range recorded for the column at construction.
C8_PrunerRules ==
    call.op = "column_could_satisfy_predicate" =>
        IF call.column_name \notin DOMAIN rg.all_columns_by_name
        THEN call.result = FALSE
        ELSE call.result =
                 PrunerRule(call.predicate[1], call.predicate[2],
                            column_range(column_by_name(rg, call.column_name))[1],
                            column_range(column_by_name(rg, call.column_name))[2])

\* the pruner kept a column for an equality on a value inside its range
C8_Witness ==
    /\ call.op = "column_could_satisfy_predicate"
    /\ call.column_name \in DOMAIN rg.all_columns_by_name
    /\ call.predicate[1] = "Equal"
    /\ call.result = TRUE

----------------------------------------------------------------------------
(* Claims about group keys *)

\* C9: packing up to four ids, one lane each from a zero key, and unpacking
\* as many lanes gives the ids back (so keys of equal length that pack to the
\* same word are equal).
C9_PackUnpackRoundTrip ==
    call.op = "unpack" =>
        /\ call.packed = PackFrom(0, call.ids, 0)
        /\ call.unpacked = call.ids

\* four lanes were packed and unpacked, the first holding zero and the last
\* the largest id
C9_Witness ==
    /\ call.op = "unpack"
    /\ Len(call.ids) = Lanes
    /\ call.ids[1] = 0
    /\ call.ids[Lanes] = LaneModulus - 1

RECURSIVE Lexicographic(_, _, _)
\* the ordering of the values at the first position from i on where two keys
\* of equal arity differ
Lexicographic(a, b, i) ==
    IF i > Len(a) THEN "Equal"
    ELSE IF a[i] < b[i] THEN "Less"
    ELSE IF a[i] > b[i] THEN "Greater"
    ELSE Lexicographic(a, b, i + 1)

\* C10: cmp on group keys of equal arity is the lexicographic ordering, Equal
\* only for equal keys; on keys of different arity it fails an assertion.
C10_GroupKeyOrdering ==
    call.op = "cmp" =>
        IF Len(call.self) # Len(call.other)
        THEN call.result = Panic
        ELSE /\ call.result = Lexicographic(call.self, call.other, 1)
             /\ call.result = "Equal" <=> call.self = call.other

----------------------------------------------------------------------------
(* ReadGroupResult::sort *)

\* permutation::sort(keys): the stable sort order of the keys under
\* GroupKey's Ord, as the sequence of the indices in sorted order
permutation_sort(keys) ==
    LET before(j, i) == \/ GroupKey_cmp(keys[j], keys[i]) = "Less"
                        \/ GroupKey_cmp(keys[j], keys[i]) = "Equal" /\ j < i
    IN  [p \in 1..Len(keys) |->
            CHOOSE i \in 1..Len(keys) :
                Cardinality({j \in 1..Len(keys) : before(j, i)}) = p - 1]

\* Permutation::apply_slice
apply_slice(perm, slice) == [p \in 1..Len(perm) |-> slice[perm[p]]]

\* ReadGroupResult::sort
ReadGroupResult_sort(self) ==
    LET perm == permutation_sort(self.group_keys)
    IN  [self EXCEPT !.group_keys = apply_slice(perm, self.group_keys),
                     !.aggregates = apply_slice(perm, self.aggregates)]

\* results.sort() on the result of the last read_group
Sort ==
    /\ call.op = "read_group"
    /\ call.result # Panic
    /\ call' = [op |-> "sort",
                predicates |-> call.predicates,
                group_columns |-> call.group_columns,
                aggregates |-> call.aggregates,
                unsorted |-> call.result,
                result |-> ReadGroupResult_sort(call.result)]
    /\ UNCHANGED <<rg, server, tasks, lock>>

NextSort == ReadGroup \/ Sort \/ Return
SpecSort == Init /\ [][NextSort]_vars

\* the number of rows of a result that hold the pair <<key, aggs>>
Occurrences(result, key, aggs) ==
    Cardinality({k \in 1..Len(result.group_keys) :
                    result.group_keys[k] = key /\ result.aggregates[k] = aggs})

\* C11: sort leaves the group keys in non-decreasing lexicographic order,
\* moves the aggregate rows with their keys, and gives the same rows whatever
\* the order in which the kernel emitted them.
C11_SortLexicographic ==
    call.op = "sort" =>
        /\ \A k \in 1..(Len(call.result.group_keys) - 1) :
               Lexicographic(call.result.group_keys[k], call.result.group_keys[k + 1], 1)
                   \in {"Less", "Equal"}
        /\ Len(call.result.group_keys) = Len(call.unsorted.group_keys)
        /\ Len(call.result.aggregates) = Len(call.unsorted.aggregates)
        /\ \A k \in 1..Len(call.unsorted.group_keys) :
               Occurrences(call.result, call.unsorted.group_keys[k], call.unsorted.aggregates[k])
                   = Occurrences(call.unsorted, call.unsorted.group_keys[k],
                                 call.unsorted.aggregates[k])
        /\ LET other == read_group(rg, call.predicates, call.group_columns, call.aggregates,
                                   Identity(MaxRows))
           IN  other # Panic => call.result = ReadGroupResult_sort(other)

----------------------------------------------------------------------------
(* Construction: RowGroup::new on column maps that may be ill-formed *)

\* the most rows a column passed to the constructor holds
NewMaxRows == 2

\* the values of a column passed to the constructor
NewColumnData == UNION {[1..n -> TagValues \cup {NULL}] : n \in 1..NewMaxRows}

\* the possible columns under each name; "counter" may be a second time column
NewColumnsOf(name) ==
    {[kind |-> kind, data |-> data, pre |-> FALSE] :
        kind \in (CASE name = "time"    -> {"Time"}
                    [] name = "region"  -> {"Tag"}
                    [] name = "counter" -> {"Field", "Time"}),
        data \in NewColumnData}

\* the column maps passed to the constructor
NewColumnMaps ==
    UNION {{cm \in [names -> UNION {NewColumnsOf(n) : n \in names}] :
               \A n \in names : cm[n] \in NewColumnsOf(n)}
           : names \in SUBSET {"time", "region", "counter"}}

\* RowGroup::new(rows, columns): the result is the new row group, or Panic
New ==
    /\ call = Idle
    /\ \E r \in 1..NewMaxRows, columns \in NewColumnMaps :
         call' = [op |-> "new", rows |-> r, columns |-> columns,
                  result |-> RowGroup_new(r, columns)]
    /\ UNCHANGED <<rg, server, tasks, lock>>

NextNew == New \/ Return
SpecNew == InitKey /\ [][NextNew]_vars

\* the names of the Time columns of a column map
TimeColumnsOf(columns) == {n \in DOMAIN columns : columns[n].kind = "Time"}

\* a column of the map is entirely null
AllNull(columns, n) == \A i \in 1..Len(columns[n].data) : columns[n].data[i] = NULL

\* C12: RowGroup::new panics when a column's row count differs from the
\* declared one, when there is no Time column, or when a Time column has no
\* non-null value.
C12_NewPanics ==
    ( /\ call.op = "new"
      /\ \/ \E n \in DOMAIN call.columns : Len(call.columns[n].data) # call.rows
         \/ TimeColumnsOf(call.columns) = {}
         \/ \E n \in TimeColumnsOf(call.columns) : AllNull(call.columns, n) ) =>
        call.result = Panic

\* a column map with a non-null time column was refused for the row count
\* of one of its columns alone
C12_Witness ==
    /\ call.op = "new"
    /\ call.result = Panic
    /\ TimeColumnsOf(call.columns) # {}
    /\ \A n \in DOMAIN call.columns : ~AllNull(call.columns, n)
    /\ \E n \in DOMAIN call.columns : Len(call.columns[n].data) # call.rows

\* C13: RowGroup::new panics when the column map holds more than one Time
\* column.
C13_MultipleTimeColumnsPanic ==
    (call.op = "new" /\ Cardinality(TimeColumnsOf(call.columns)) > 1) => call.result = Panic

\* C14: a column map whose Tag or Field column is entirely null (and which is
\* otherwise well-formed) constructs a row group, without a range for that
\* column, on which the pruner answers false for every predicate on it.
C14_AllNullColumn ==
    ( /\ call.op = "new"
      /\ Cardinality(TimeColumnsOf(call.columns)) = 1
      /\ \A n \in DOMAIN call.columns : Len(call.columns[n].data) = call.rows
      /\ \A n \in TimeColumnsOf(call.columns) : ~AllNull(call.columns, n)
      /\ \E n \in DOMAIN call.columns \ TimeColumnsOf(call.columns) : AllNull(call.columns, n) ) =>
        /\ call.result # Panic
        /\ \A n \in DOMAIN call.columns \ TimeColumnsOf(call.columns) :
               AllNull(call.columns, n) =>
                   /\ n \notin DOMAIN call.result.meta.column_ranges
                   /\ \A op \in Operators, v \in PrunerValues :
                          ~column_could_satisfy_predicate(call.result, n, op, v)

\* C15: a constructed row group has one range per input column, equal to the
\* least and greatest non-null value of the column; its rows are the
\* declared ones, its size the sum of the column sizes, and its time range
\* the range recorded for its time column.
C15_MetadataInvariant ==
    (call.op = "new" /\ call.result # Panic) =>
        /\ DOMAIN call.result.meta.column_ranges = DOMAIN call.columns
        /\ \A n \in DOMAIN call.columns :
               LET present == {call.columns[n].data[i] : i \in 1..Len(call.columns[n].data)} \ {NULL}
               IN  /\ present # {}
                   /\ call.result.meta.column_ranges[n] = <<SetMin(present), SetMax(present)>>
        /\ rows(call.result) = call.rows
        /\ call.result.meta.size = SumSeq([i \in 1..Len(call.result.columns) |-> ColumnSize(call.result.columns[i])])
        /\ Len(call.result.columns) = Cardinality(DOMAIN call.columns)
        /\ \A n \in DOMAIN call.columns : column_by_name(call.result, n) = call.columns[n]
        /\ \A n \in DOMAIN call.columns :
               call.result.all_columns_by_name[n] = call.result.time_column =>
                   call.result.meta.time_range = call.result.meta.column_ranges[n]

\* a row group was constructed from three columns
C15_Witness ==
    /\ call.op = "new"
    /\ call.result # Panic
    /\ Cardinality(DOMAIN call.columns) = 3
    /\ call.rows = NewMaxRows

----------------------------------------------------------------------------
(* build_predicates_with_time *)

\* build_predicates_with_time(from, to, others)
build_predicates_with_time(from, to, others) ==
    <<[col |-> TIME_COLUMN_NAME, op |-> "GTE", value |-> from],
      [col |-> TIME_COLUMN_NAME, op |-> "LT", value |-> to]>> \o others

\* the bounds of the time ranges built
TimeBounds == 1..(MaxRows + 1)

\* the lists of up to two predicates on other columns than time
OtherPredicateLists ==
    {l \in PredicateLists : Len(l) <= 2 /\ \A i \in 1..Len(l) : ~IsTimePredicate(l[i])}

\* row_ids_from_predicates(&build_predicates_with_time(from, to, others))
RowIdsWithTime ==
    /\ call = Idle
    /\ \E from \in TimeBounds, to \in TimeBounds, others \in OtherPredicateLists :
         call' = [op |-> "build_predicates_with_time",
                  from |-> from, to |-> to, others |-> others,
                  predicates |-> build_predicates_with_time(from, to, others),
                  result |-> row_ids_from_predicates(
                                 rg, build_predicates_with_time(from, to, others))]
    /\ UNCHANGED <<rg, server, tasks, lock>>

NextTime == RowIdsWithTime \/ Return
SpecTime == Init /\ [][NextTime]_vars

\* C16: the built list is (time >= from), (time < to) and then the other
\* predicates in their order, and filtering with it selects the rows whose
\* time is in [from, to) and which satisfy every other predicate.
C16_BuildPredicatesWithTime ==
    call.op = "build_predicates_with_time" =>
        /\ Len(call.predicates) = 2 + Len(call.others)
        /\ call.predicates[1] = [col |-> TIME_COLUMN_NAME, op |-> "GTE", value |-> call.from]
        /\ call.predicates[2] = [col |-> TIME_COLUMN_NAME, op |-> "LT", value |-> call.to]
        /\ \A i \in 1..Len(call.others) : call.predicates[2 + i] = call.others[i]
        /\ RowSet(rg, call.result) =
               {r \in 0..(rows(rg) - 1) :
                   /\ call.from <= time_column(rg).data[r + 1]
                   /\ time_column(rg).data[r + 1] < call.to
                   /\ r \in MatchingRows(rg, call.others)}

----------------------------------------------------------------------------
(* Immutability of the row group under the queries *)

\* every query on one row group
SpecQueries == InitKey /\ [][Next]_vars

\* two read_group outcomes are both a panic or hold the same groups
SameGroups(a, b) ==
    IF a = Panic \/ b = Panic THEN a = b
    ELSE /\ a.group_columns = b.group_columns
         /\ a.aggregate_columns = b.aggregate_columns
         /\ Len(a.group_keys) = Len(b.group_keys)
         /\ ResultGroups(a) = ResultGroups(b)

----------------------------------------------------------------------------
(* read_group with First and Last aggregates *)

\* aggregate lists that hold a First or a Last aggregate
FirstLastAggregateLists ==
    { << <<"counter", "First">> >>,
      << <<"counter", "Last">> >>,
      << <<"counter", "Sum">>, <<"counter", "Last">> >> }

\* read_group(predicates, group_columns, aggregates) with at most one
\* predicate and a First or Last aggregate
ReadGroupFirstLast ==
    /\ call = Idle
    /\ \E predicates \in {l \in GroupPredicateLists : Len(l) <= 1},
          group_columns \in GroupColumnLists,
          aggregates \in FirstLastAggregateLists :
         \E first \in {read_group(rg, predicates, group_columns, aggregates,
                                   Identity(MaxRows))} :
           \E iter \in IterOrders(IF UsesHashMap(rg, predicates, group_columns)
                                      /\ first # Panic
                                   THEN Len(first.group_keys) ELSE 1) :
               call' = [op |-> "read_group",
                        predicates |-> predicates,
                        group_columns |-> group_columns,
                        aggregates |-> aggregates,
                        result |-> IF \A i \in DOMAIN iter : iter[i] = i THEN first
                                   ELSE read_group(rg, predicates, group_columns,
                                                   aggregates, iter)]
    /\ UNCHANGED <<rg, server, tasks, lock>>

NextFirstLast == ReadGroupFirstLast \/ Return
SpecFirstLast == Init /\ [][NextFirstLast]_vars

\* the request goes to the all-RLE kernel and asks for a First or a Last
AllRleFirstLast ==
    /\ call.op = "read_group"
    /\ call.predicates = <<>>
    /\ \A i \in 1..Len(call.group_columns) : column_by_name(rg, call.group_columns[i]).pre
    /\ \E i \in 1..Len(call.aggregates) : call.aggregates[i][2] \in {"First", "Last"}

\* C18: read_group without predicates, on grouping columns that all have
\* pre-computed row ids, with a First or Last aggregate fails as
\* unimplemented and returns no result.
C18_FirstLastAllRle ==
    AllRleFirstLast => call.result = Panic

\* the all-RLE kernel was asked for a sum and a Last over two grouping columns
C18_Witness ==
    /\ AllRleFirstLast
    /\ Len(call.group_columns) = 2
    /\ Len(call.aggregates) = 2
    /\ call.result = Panic


----------------------------------------------------------------------------
(* Server operations.  Each operation is a function of the server before   *)
(* the call and the arguments; it gives the server after the call and the  *)
(* Result returned.  Calls are made one after the other, each awaited      *)
(* before the next, as the tests of server.rs do.                          *)

MaxId == 2          \* server ids are 0..MaxId
MaxSequence == 2    \* write_lines is called while it hands out sequence numbers up to this
MaxLog == 2         \* ... and its remotes hold at most this many of its writes
MaxObjects == 1     \* store_configuration is called while the store holds at most this many objects

Ok == [ok |-> TRUE]
Err(e) == [err |-> e]
IsErr(r) == "err" \in DOMAIN r

\* Server::set_id: any u32 is stored, 0 included
set_id(self, id) == [self EXCEPT !.id = id]

\* Server::require_id
require_id(self) ==
    IF self.id = SERVER_ID_NOT_SET THEN Err("IdNotSet") ELSE [ok |-> self.id]

\* DatabaseName::new (data_types): names with characters outside the
\* allowed set are rejected
DatabaseName_new(name) ==
    IF name \in {"bananas!"} THEN Err("InvalidDatabaseName") ELSE [ok |-> name]

\* Db::new(rules, mutable_buffer, read_buffer, wal_buffer, sequence); the
\* mutable buffer is an Option: <<>> is None, <<writes>> is Some
Db_new(rules, mutable_buffer, sequence) ==
    [rules |-> rules, mutable_buffer |-> mutable_buffer, sequence |-> sequence]

\* Db::next_sequence: returns the counter and advances it by one
Db_next_sequence(db) ==
    [value |-> db.sequence, db |-> [db EXCEPT !.sequence = @ + 1]]

\* lines_to_replicated_write(writer, sequence, lines, rules)
lines_to_replicated_write(writer, sequence, lines) ==
    [writer |-> writer, sequence |-> sequence, lines |-> lines]

\* create_database with another first sequence number
create_database_starting_at(self, db_name, rules, sequence) ==
    IF IsErr(require_id(self))
    THEN [server |-> self, result |-> require_id(self)]
    ELSE IF IsErr(DatabaseName_new(db_name))
    THEN [server |-> self, result |-> DatabaseName_new(db_name)]
    ELSE LET mutable_buffer == IF rules.store_locally THEN << <<>> >> ELSE <<>>
             db == Db_new(rules, mutable_buffer, sequence)
         IN  [server |-> [self EXCEPT !.config.databases = Insert(@, db_name, db)],
              result |-> Ok]

\* create_database whose sequence numbers start at 0
create_database_from_zero(self, db_name, rules) ==
    create_database_starting_at(self, db_name, rules, 0)

\* create_database that validates the name before it looks at the id
create_database_name_first(self, db_name, rules) ==
    IF IsErr(DatabaseName_new(db_name))
    THEN [server |-> self, result |-> DatabaseName_new(db_name)]
    ELSE create_database_starting_at(self, db_name, rules, STARTING_SEQUENCE)

\* Server::create_database
create_database(self, db_name, rules) ==
    create_database_starting_at(self, db_name, rules, STARTING_SEQUENCE)

\* Server::create_host_group
create_host_group(self, id, hosts) ==
    IF IsErr(require_id(self))
    THEN [server |-> self, result |-> require_id(self)]
    ELSE [server |-> [self EXCEPT !.config.host_groups =
                          Insert(@, id, [id |-> id, hosts |-> hosts])],
          result |-> Ok]

\* config_location(id): the path <id>/config.json
config_location(id) == <<id, "config.json">>

\* serde_json::to_vec(&config): a database is written as its rules
Serialize(config) ==
    [databases |-> [n \in DOMAIN config.databases |-> config.databases[n].rules],
     host_groups |-> config.host_groups]

\* Server::store_configuration, on the in-memory object store
store_configuration(self) ==
    IF IsErr(require_id(self))
    THEN [server |-> self, result |-> require_id(self)]
    ELSE [server |-> [self EXCEPT !.store =
                          Insert(@, config_location(require_id(self).ok),
                                 Serialize(self.config))],
          result |-> Ok]

\* the writes a remote host holds for a database name
RemoteWrites(self, host, db_name) ==
    IF host \in DOMAIN self.remotes /\ db_name \in DOMAIN self.remotes[host]
    THEN self.remotes[host][db_name]
    ELSE <<>>

\* RemoteServer::replicate as TestRemoteServer does it: the write is pushed
\* on the vector kept for the database name
RemoteServer_replicate(self, host, db_name, write) ==
    LET of_host == IF host \in DOMAIN self.remotes THEN self.remotes[host] ELSE EmptyMap
        entries == Append(RemoteWrites(self, host, db_name), write)
    IN  [self EXCEPT !.remotes = Insert(@, host, Insert(of_host, db_name, entries))]

\* a replicate_to_host_group that sends to the last host of the group
replicate_to_host_group_last_host(self, host_group_id, db_name, write, connections) ==
    IF host_group_id \notin DOMAIN self.config.host_groups
    THEN [server |-> self, result |-> Err("HostGroupNotFound")]
    ELSE LET group == self.config.host_groups[host_group_id] IN
         IF Len(group.hosts) = 0
         THEN [server |-> self, result |-> Err("NoHostInGroup")]
         ELSE LET host == group.hosts[Len(group.hosts)] IN
              IF connections[host] = "unreachable"
              THEN [server |-> self, result |-> Err("UnableToGetConnection")]
              ELSE IF connections[host] = "rejects"
              THEN [server |-> self, result |-> Err("ErrorReplicating")]
              ELSE [server |-> RemoteServer_replicate(self, host, db_name, write),
                    result |-> Ok]

\* Server::replicate_to_host_group; connections[host] tells what the
\* connection manager and the remote do for that host during this call
replicate_to_host_group(self, host_group_id, db_name, write, connections) ==
    IF host_group_id \notin DOMAIN self.config.host_groups
    THEN [server |-> self, result |-> Err("HostGroupNotFound")]
    ELSE LET group == self.config.host_groups[host_group_id] IN
         IF Len(group.hosts) = 0
         THEN [server |-> self, result |-> Err("NoHostInGroup")]
         ELSE LET host == group.hosts[1] IN
              IF connections[host] = "unreachable"
              THEN [server |-> self, result |-> Err("UnableToGetConnection")]
              ELSE IF connections[host] = "rejects"
              THEN [server |-> self, result |-> Err("ErrorReplicating")]
              ELSE [server |-> RemoteServer_replicate(self, host, db_name, write),
                    result |-> Ok]

\* for host_group_id in &db.rules.replication { replicate_to_host_group(..)? }
RECURSIVE ReplicationLoop(_, _, _, _, _)
ReplicationLoop(self, replication, db_name, write, connections) ==
    IF replication = <<>>
    THEN [server |-> self, result |-> Ok]
    ELSE LET step == replicate_to_host_group(self, Head(replication), db_name,
                                             write, connections)
         IN  IF step.result # Ok
             THEN step
             ELSE ReplicationLoop(step.server, Tail(replication), db_name,
                                  write, connections)

\* for subscription in &db.rules.subscriptions { match matcher.tables .. }
RECURSIVE SubscriptionLoop(_, _, _, _, _)
SubscriptionLoop(self, subscriptions, db_name, write, connections) ==
    IF subscriptions = <<>>
    THEN [server |-> self, result |-> Ok]
    ELSE IF Head(subscriptions).tables # "All"
    THEN [server |-> self, result |-> Panic]
    ELSE LET step == replicate_to_host_group(self, Head(subscriptions).host_group_id,
                                             db_name, write, connections)
         IN  IF step.result # Ok
             THEN step
             ELSE SubscriptionLoop(step.server, Tail(subscriptions), db_name,
                                   write, connections)

\* a handle_replicated_write that stores the write locally only after every
\* replication succeeded
handle_replicated_write_store_last(self, db_name, write, connections) ==
    LET db == self.config.databases[db_name]
        replicated == ReplicationLoop(self, db.rules.replication, db_name,
                                      write, connections)
        subscribed == IF replicated.result # Ok
                      THEN replicated
                      ELSE SubscriptionLoop(replicated.server, db.rules.subscriptions,
                                            db_name, write, connections)
    IN  IF subscribed.result # Ok \/ db.mutable_buffer = <<>>
        THEN subscribed
        ELSE [server |-> [subscribed.server EXCEPT
                              !.config.databases[db_name].mutable_buffer =
                                  <<Append(@[1], write)>>],
              result |-> Ok]

\* Server::handle_replicated_write
handle_replicated_write(self, db_name, write, connections) ==
    LET db == self.config.databases[db_name]
        stored == IF db.mutable_buffer # <<>>
                  THEN [self EXCEPT !.config.databases[db_name].mutable_buffer =
                                        <<Append(@[1], write)>>]
                  ELSE self
        replicated == ReplicationLoop(stored, db.rules.replication, db_name,
                                      write, connections)
    IN  IF replicated.result # Ok
        THEN replicated
        ELSE SubscriptionLoop(replicated.server, db.rules.subscriptions, db_name,
                              write, connections)

\* Server::write_lines
write_lines(self, db_name, lines, connections) ==
    IF IsErr(require_id(self))
    THEN [server |-> self, result |-> require_id(self)]
    ELSE IF IsErr(DatabaseName_new(db_name))
    THEN [server |-> self, result |-> DatabaseName_new(db_name)]
    ELSE IF db_name \notin DOMAIN self.config.databases
    THEN [server |-> self, result |-> Err("DatabaseNotFound")]
    ELSE LET next == Db_next_sequence(self.config.databases[db_name])
             write == lines_to_replicated_write(require_id(self).ok, next.value, lines)
             sequenced == [self EXCEPT !.config.databases[db_name] = next.db]
         IN  handle_replicated_write(sequenced, db_name, write, connections)

\* The calls the model makes
ServerIds == 0..MaxId
DbNames == {"foo", "bananas!"}
Hosts == {"serverA", "serverB"}
HostGroups ==
    {[id |-> "az1", hosts |-> <<"serverA">>],
     [id |-> "az2", hosts |-> <<"serverB", "serverA">>],
     [id |-> "az2", hosts |-> <<>>]}
Lines == {"cpu bar=1 10"}
Subscription(host_group_id, tables) == [host_group_id |-> host_group_id, tables |-> tables]
DatabaseRulesSet ==
    {[store_locally |-> TRUE, replication |-> <<>>, subscriptions |-> <<>>],
     [store_locally |-> FALSE, replication |-> <<"az1">>, subscriptions |-> <<>>],
     [store_locally |-> FALSE, replication |-> <<"az1">>,
      subscriptions |-> <<Subscription("az2", "All")>>],
     [store_locally |-> FALSE, replication |-> <<>>,
      subscriptions |-> <<Subscription("az1", "Table")>>]}
Connections == [Hosts -> {"ok", "unreachable", "rejects"}]

SetId ==
    /\ call = Idle
    /\ \E id \in ServerIds :
         /\ server' = set_id(server, id)
         /\ call' = [op |-> "set_id", id |-> id, result |-> Ok]
    /\ UNCHANGED <<rg, tasks, lock>>

CreateDatabase ==
    /\ call = Idle
    /\ \E db_name \in DbNames, rules \in DatabaseRulesSet :
         \E r \in {create_database(server, db_name, rules)} :
           /\ server' = r.server
           /\ call' = [op |-> "create_database", db_name |-> db_name,
                       result |-> r.result]
    /\ UNCHANGED <<rg, tasks, lock>>

CreateHostGroup ==
    /\ call = Idle
    /\ \E group \in HostGroups :
         \E r \in {create_host_group(server, group.id, group.hosts)} :
           /\ server' = r.server
           /\ call' = [op |-> "create_host_group", id |-> group.id,
                       result |-> r.result]
    /\ UNCHANGED <<rg, tasks, lock>>

StoreConfiguration ==
    /\ call = Idle
    /\ \E r \in {store_configuration(server)} :
         /\ Cardinality(DOMAIN r.server.store) <= MaxObjects
         /\ server' = r.server
         /\ call' = [op |-> "store_configuration", result |-> r.result]
    /\ UNCHANGED <<rg, tasks, lock>>

\* the number of writes of a database name that the remotes hold
RECURSIVE ReceivedWrites(_, _, _)
ReceivedWrites(self, hosts, db_name) ==
    IF hosts = {} THEN 0
    ELSE LET host == CHOOSE h \in hosts : TRUE
         IN  Len(RemoteWrites(self, host, db_name))
                 + ReceivedWrites(self, hosts \ {host}, db_name)

\* the bounds on the calls of write_lines, on the server the call leaves
WithinBounds(self, db_name) ==
    db_name \in DOMAIN self.config.databases =>
        /\ self.config.databases[db_name].sequence <= MaxSequence + 1
        /\ ReceivedWrites(self, Hosts, db_name) <= MaxLog

WriteLines ==
    /\ call = Idle
    /\ \E db_name \in DbNames, lines \in Lines, connections \in Connections :
         \E r \in {write_lines(server, db_name, lines, connections)} :
           /\ WithinBounds(r.server, db_name)
           /\ server' = r.server
           /\ call' = [op |-> "write_lines", db_name |-> db_name,
                       result |-> r.result]
    /\ UNCHANGED <<rg, tasks, lock>>

NextServer ==
    \/ SetId
    \/ CreateDatabase
    \/ CreateHostGroup
    \/ StoreConfiguration
    \/ WriteLines
    \/ Return

SpecServer == InitKey /\ [][NextServer]_vars


----------------------------------------------------------------------------
(* The server id gate *)

GatedOperations ==
    {"create_database", "create_host_group", "write_lines", "store_configuration"}

\* C19: while the server id is unset (0), create_database, create_host_group,
\* write_lines and store_configuration return IdNotSet and leave the
\* configured databases and host groups as they were; the id is checked
\* before the database name is validated or looked up, so the answer is
\* IdNotSet for an invalid or unknown name too.
C19_IdGate ==
    [][ (server.id = SERVER_ID_NOT_SET /\ call'.op \in GatedOperations) =>
            /\ call'.result = Err("IdNotSet")
            /\ server'.config = server.config
            /\ server'.store = server.store
      ]_vars

\* the id was set, a database was created, the id was put back to 0 and
\* create_database was then called with an invalid name
C19_Witness ==
    /\ server.id = SERVER_ID_NOT_SET
    /\ DOMAIN server.config.databases # {}
    /\ call.op = "create_database"
    /\ call.db_name = "bananas!"
    /\ call.result = Err("IdNotSet")

----------------------------------------------------------------------------
(* Write sequencing *)

\* the host groups a write of the database is replicated to, in order
TargetGroups(db) ==
    db.rules.replication
        \o [i \in 1..Len(db.rules.subscriptions) |-> db.rules.subscriptions[i].host_group_id]

\* log is old followed by one or more copies of a write with this writer
\* and sequence number
Received(old, log, writer, sequence) ==
    /\ Len(log) > Len(old)
    /\ SubSeq(log, 1, Len(old)) = old
    /\ \A i \in (Len(old) + 1)..Len(log) :
           log[i].writer = writer /\ log[i].sequence = sequence

----------------------------------------------------------------------------
(* Loading the configuration *)

\* serde_json::from_slice::<Config>: a database is read back from its rules;
\* what is not written (mutable buffer, sequence counter) takes its default
Deserialize(data) ==
    [databases |-> [n \in DOMAIN data.databases |-> Db_new(data.databases[n], <<>>, 0)],
     host_groups |-> data.host_groups]

\* load_configuration that adds the loaded entries to the ones held
load_configuration_merging(self, id) ==
    IF config_location(id) \notin DOMAIN self.store
    THEN [server |-> self, result |-> Err("StoreError")]
    ELSE LET loaded == Deserialize(self.store[config_location(id)])
             merge(old, new) ==
                 [k \in DOMAIN old \cup DOMAIN new |->
                     IF k \in DOMAIN new THEN new[k] ELSE old[k]]
         IN  [server |-> [self EXCEPT
                            !.config.databases = merge(@, loaded.databases),
                            !.config.host_groups = merge(@, loaded.host_groups)],
              result |-> Ok]

\* Server::load_configuration: no id is required of the server
load_configuration(self, id) ==
    IF config_location(id) \notin DOMAIN self.store
    THEN [server |-> self, result |-> Err("StoreError")]
    ELSE [server |-> [self EXCEPT !.config = Deserialize(self.store[config_location(id)])],
          result |-> Ok]

LoadConfiguration ==
    /\ call = Idle
    /\ \E id \in ServerIds :
         \E r \in {load_configuration(server, id)} :
           /\ server' = r.server
           /\ call' = [op |-> "load_configuration", id |-> id, result |-> r.result]
    /\ UNCHANGED <<rg, tasks, lock>>

NextConfiguration ==
    \/ SetId
    \/ CreateDatabase
    \/ CreateHostGroup
    \/ StoreConfiguration
    \/ LoadConfiguration
    \/ Return

SpecConfiguration == InitKey /\ [][NextConfiguration]_vars

\* C21: store_configuration on a server with id i leaves under <i>/config.json
\* the databases (their rules) and host groups the server holds, and a
\* load_configuration(i) that succeeds leaves the server with exactly the
\* databases and host groups of that object, whatever it held before.
C21_ConfigurationRoundTrip ==
    /\ (call.op = "store_configuration" /\ call.result = Ok) =>
           /\ config_location(server.id) \in DOMAIN server.store
           /\ server.store[config_location(server.id)] = Serialize(server.config)
    /\ (call.op = "load_configuration" /\ call.result = Ok) =>
           Serialize(server.config) = server.store[config_location(call.id)]

\* a configuration with a database was loaded from the object of another id
\* than the one the server has now
C21_Witness ==
    /\ call.op = "load_configuration"
    /\ call.result = Ok
    /\ call.id # server.id
    /\ DOMAIN server.config.databases # {}
    /\ DOMAIN server.config.host_groups # {}


----------------------------------------------------------------------------
(* The calls the predicate planner makes on the columns *)

FilterCall(p) ==
    [fn |-> "row_ids_filter", col |-> p.col, op |-> p.op, value |-> p.value]

RangeCall(lo, hi) ==
    [fn |-> "row_ids_filter_range", col |-> TIME_COLUMN_NAME,
     lo |-> <<lo.op, lo.value>>, hi |-> <<hi.op, hi.value>>]

RECURSIVE LoopCalls(_, _)
\* the row_ids_filter calls of the per-column loop: it returns at the first
\* column that answers None
LoopCalls(g, predicates) ==
    IF predicates = <<>> THEN <<>>
    ELSE LET p == Head(predicates)
             r == row_ids_filter(column_by_name(g, p.col), p.op, p.value)
         IN  <<FilterCall(p)>>
                 \o (IF r.tag = "None" THEN <<>> ELSE LoopCalls(g, Tail(predicates)))

\* a planner that takes the range path whenever two or more predicates name
\* the time column
column_calls_two_or_more(g, predicates) ==
    IF Len(SelectSeq(predicates, IsTimePredicate)) >= 2
    THEN LET time_predicates == SelectSeq(predicates, IsTimePredicate)
             filtered_predicates == SelectSeq(predicates, LAMBDA p : ~IsTimePredicate(p))
         IN  <<RangeCall(time_predicates[1], time_predicates[2])>>
                 \o LoopCalls(g, filtered_predicates)
    ELSE LoopCalls(g, predicates)

\* the column calls of RowGroup::row_ids_from_predicates, in the order made
column_calls(g, predicates) ==
    IF Len(SelectSeq(predicates, IsTimePredicate)) = 2
    THEN LET time_predicates == SelectSeq(predicates, IsTimePredicate)
             time_pred_row_ids == row_ids_from_predicates_with_time_range(g, predicates)
             filtered_predicates == SelectSeq(predicates, LAMBDA p : ~IsTimePredicate(p))
         IN  <<RangeCall(time_predicates[1], time_predicates[2])>>
                 \o (IF time_pred_row_ids.tag = "None" THEN <<>>
                     ELSE LoopCalls(g, filtered_predicates))
    ELSE LoopCalls(g, predicates)

\* row_ids_from_predicates(predicates), with the calls it made on the columns
PlanPredicates ==
    /\ call = Idle
    /\ \E predicates \in PredicateLists :
         call' = [op |-> "row_ids_from_predicates",
                  predicates |-> predicates,
                  column_calls |-> column_calls(rg, predicates),
                  result |-> row_ids_from_predicates(rg, predicates)]
    /\ UNCHANGED <<rg, server, tasks, lock>>

NextPlanner == PlanPredicates \/ Return
SpecPlanner == Init /\ [][NextPlanner]_vars

IsPrefix(a, b) == Len(a) <= Len(b) /\ SubSeq(b, 1, Len(a)) = a

\* the calls the planner is to make when no column answers None
PlannedCalls(predicates) ==
    LET time == SelectSeq(predicates, IsTimePredicate)
        others == SelectSeq(predicates, LAMBDA p : ~IsTimePredicate(p))
    IN  IF Len(time) = 2
        THEN <<RangeCall(time[1], time[2])>> \o [i \in 1..Len(others) |-> FilterCall(others[i])]
        ELSE [i \in 1..Len(predicates) |-> FilterCall(predicates[i])]

----------------------------------------------------------------------------
(* Kernel selection in read_group *)

\* a read_group that takes the single-column kernel before it looks at the
\* pre-computed row ids
read_group_calls_single_first(g, predicates, group_columns) ==
    LET all_group_cols_pre_computed ==
            \A i \in 1..Len(group_columns) : column_by_name(g, group_columns[i]).pre
        row_ids == row_ids_from_predicates(g, predicates)
    IN  IF Len(group_columns) = 1
        THEN <<"row_ids_from_predicates">>
                 \o (IF row_ids.tag = "None" THEN <<>>
                     ELSE <<"read_group_single_group_column">>)
        ELSE IF predicates = <<>> /\ all_group_cols_pre_computed
        THEN <<"read_group_all_rows_all_rle">>
        ELSE <<"row_ids_from_predicates">>
                 \o (IF row_ids.tag = "None" THEN <<>>
                     ELSE IF Len(group_columns) <= 4
                     THEN <<"read_group_hash_with_u128_key">>
                     ELSE <<"read_group_hash_with_vec_key">>)

\* the planner and the kernel RowGroup::read_group (with
\* read_group_with_hashing) calls, in the order called
read_group_calls(g, predicates, group_columns) ==
    LET all_group_cols_pre_computed ==
            \A i \in 1..Len(group_columns) : column_by_name(g, group_columns[i]).pre
        row_ids == row_ids_from_predicates(g, predicates)
    IN  IF predicates = <<>> /\ all_group_cols_pre_computed
        THEN <<"read_group_all_rows_all_rle">>
        ELSE <<"row_ids_from_predicates">>
                 \o (IF row_ids.tag = "None" THEN <<>>
                     ELSE IF Len(group_columns) = 1
                     THEN <<"read_group_single_group_column">>
                     ELSE IF Len(group_columns) <= 4
                     THEN <<"read_group_hash_with_u128_key">>
                     ELSE <<"read_group_hash_with_vec_key">>)

\* grouping columns for one, two, four and five columns
KernelGroupColumnLists ==
    { <<"region">>, <<"method">>, <<"region", "method">>,
      <<"region", "method", "region", "method">>,
      <<"region", "method", "region", "method", "region">> }

\* read_group(predicates, group_columns, [(counter, Count)]), with the planner
\* and kernel calls it made
ReadGroupKernels ==
    /\ call = Idle
    /\ \E predicates \in GroupPredicateLists, group_columns \in KernelGroupColumnLists :
         \E first \in {read_group(rg, predicates, group_columns,
                                   << <<"counter", "Count">> >>, Identity(MaxRows))} :
           \E iter \in IterOrders(IF UsesHashMap(rg, predicates, group_columns)
                                      /\ first # Panic
                                   THEN Len(first.group_keys) ELSE 1) :
               call' = [op |-> "read_group",
                        predicates |-> predicates,
                        group_columns |-> group_columns,
                        aggregates |-> << <<"counter", "Count">> >>,
                        calls |-> read_group_calls(rg, predicates, group_columns),
                        result |-> IF \A i \in DOMAIN iter : iter[i] = i THEN first
                                   ELSE read_group(rg, predicates, group_columns,
                                                   << <<"counter", "Count">> >>, iter)]
    /\ UNCHANGED <<rg, server, tasks, lock>>

NextKernels == ReadGroupKernels \/ Return
SpecKernels == Init /\ [][NextKernels]_vars

Kernels ==
    {"read_group_all_rows_all_rle", "read_group_single_group_column",
     "read_group_hash_with_u128_key", "read_group_hash_with_vec_key"}

\* the kernel the query shape selects
SelectedKernel(g, predicates, group_columns) ==
    IF predicates = <<>>
       /\ \A i \in 1..Len(group_columns) : column_by_name(g, group_columns[i]).pre
    THEN "read_group_all_rows_all_rle"
    ELSE CASE Len(group_columns) = 1     -> "read_group_single_group_column"
           [] Len(group_columns) \in 2..4 -> "read_group_hash_with_u128_key"
           [] Len(group_columns) >= 5     -> "read_group_hash_with_vec_key"

----------------------------------------------------------------------------
(* The single-column kernel *)

\* the rows the planner selects
SelectedRows(g, predicates) == RowSet(g, row_ids_from_predicates(g, predicates))

\* what the single-column kernel is to emit: one group per encoded id among
\* the selected rows, in ascending id order, with every requested aggregate
SingleColumnGroups(g, predicates, group_column, aggregates) ==
    LET column == column_by_name(g, group_column)
        selected == SelectedRows(g, predicates)
        ids == SortedSeq({encode_value(column, column.data[r + 1]) : r \in selected})
        group(id) == {r \in selected : encode_value(column, column.data[r + 1]) = id}
    IN  [group_keys |-> [k \in 1..Len(ids) |-> <<decode_id(column, ids[k])>>],
         aggregates |-> [k \in 1..Len(ids) |->
                            [i \in 1..Len(aggregates) |->
                                ExpectedAggregate(g, aggregates[i], group(ids[k]))]]]

\* the single-column kernel ran in the call
RanSingleColumnKernel ==
    /\ call.op = "read_group"
    /\ SelectedKernel(rg, call.predicates, call.group_columns)
           = "read_group_single_group_column"
    /\ row_ids_from_predicates(rg, call.predicates).tag # "None"

\* C24: with one grouping column and any number k >= 1 of aggregates, the
\* single-column kernel completes without a failed assertion and emits one
\* group per distinct encoded id among the selected rows, in ascending id
\* order, each with its k aggregates over the rows of the group.
C24_SingleColumnKernel ==
    RanSingleColumnKernel =>
        /\ call.result # Panic
        /\ LET expected == SingleColumnGroups(rg, call.predicates,
                                              call.group_columns[1], call.aggregates)
           IN  /\ call.result.group_keys = expected.group_keys
               /\ call.result.aggregates = expected.aggregates


----------------------------------------------------------------------------
(* Emission of the all-RLE kernel *)

\* the all-RLE kernel ran in the call
RanAllRleKernel ==
    /\ call.op = "read_group"
    /\ SelectedKernel(rg, call.predicates, call.group_columns)
           = "read_group_all_rows_all_rle"

\* the encoded ids of a tuple of logical values of the grouping columns
EncodedKey(g, group_columns, key) ==
    [i \in 1..Len(group_columns) |->
        encode_value(column_by_name(g, group_columns[i]), key[i])]

\* the rows that hold the encoded id ids[i] in grouping column i, for every i
RowsOfTuple(g, group_columns, ids) ==
    {r \in 0..(rows(g) - 1) :
        EncodedKey(g, group_columns, KeyOfRow(g, group_columns, r)) = ids}

\* C25: the all-RLE kernel emits a tuple of encoded ids iff some row holds
\* it (the intersection of its bitmaps is not empty), emits it once, so that
\* every row belongs to exactly one emitted group, and emits the groups in
\* ascending lexicographic order of their encoded-id tuples, which is the
\* order of the keys with NULL first.
C25_AllRleEmission ==
    RanAllRleKernel =>
        /\ call.result # Panic
        /\ LET keys == call.result.group_keys
               emitted == [k \in 1..Len(keys) |-> EncodedKey(rg, call.group_columns, keys[k])]
           IN  /\ \A k \in 1..Len(keys) :
                      /\ Len(keys[k]) = Len(call.group_columns)
                      /\ RowsOfTuple(rg, call.group_columns, emitted[k]) # {}
               /\ \A r \in 0..(rows(rg) - 1) :
                      Cardinality({k \in 1..Len(keys) :
                          keys[k] = KeyOfRow(rg, call.group_columns, r)}) = 1
               /\ \A k \in 1..(Len(keys) - 1) :
                      Lexicographic(emitted[k], emitted[k + 1], 1) = "Less"
               /\ \A k \in 1..(Len(keys) - 1) :
                      Lexicographic(keys[k], keys[k + 1], 1) = "Less"

\* two RLE grouping columns: several groups were emitted, the second column
\* not ascending along them, and some candidate tuple was rejected
C25_Witness ==
    /\ RanAllRleKernel
    /\ call.group_columns = <<"region", "method">>
    /\ call.result # Panic
    /\ Len(call.result.group_keys) = 3
    /\ call.result.group_keys[1][2] > call.result.group_keys[2][2]
    /\ call.result.group_keys[1][1] = NULL


----------------------------------------------------------------------------
(* The shape of a read_group result *)

\* C26: a read_group call that returns gives as many group keys as aggregate
\* rows, every key with one value per grouping column, every aggregate row
\* with one entry per requested aggregate, of the requested type in request
\* order, and no group key twice.
C26_ResultShape ==
    (call.op = "read_group" /\ call.result # Panic) =>
        LET keys == call.result.group_keys
            aggregates == call.result.aggregates
        IN  /\ Len(keys) = Len(aggregates)
            /\ \A k \in 1..Len(keys) : Len(keys[k]) = Len(call.group_columns)
            /\ \A k \in 1..Len(aggregates) :
                   /\ Len(aggregates[k]) = Len(call.aggregates)
                   /\ \A i \in 1..Len(call.aggregates) :
                          aggregates[k][i].typ = call.aggregates[i][2]
            /\ \A j, k \in 1..Len(keys) : keys[j] = keys[k] => j = k

\* a hashing kernel returned several groups with two aggregates each
C26_Witness ==
    /\ call.op = "read_group"
    /\ call.result # Panic
    /\ Len(call.group_columns) = 2
    /\ call.predicates # <<>>
    /\ Len(call.aggregates) = 2
    /\ Len(call.result.group_keys) >= 2


----------------------------------------------------------------------------
(* Replication to one host group *)

\* the host group ids of the calls ("az3" is never configured) and the
\* writes handed over
ReplicatedGroupIds == {"az1", "az2", "az3"}
ReplicatedWrites ==
    {lines_to_replicated_write(writer, sequence, lines) :
        writer \in 1..MaxId, sequence \in 1..MaxSequence, lines \in Lines}

\* replicate_to_host_group(host_group_id, "foo", write)
ReplicateToHostGroup ==
    /\ call = Idle
    /\ \E host_group_id \in ReplicatedGroupIds, write \in ReplicatedWrites,
          connections \in Connections :
         \E r \in {replicate_to_host_group(server, host_group_id, "foo", write,
                                           connections)} :
           /\ ReceivedWrites(r.server, Hosts, "foo") <= MaxLog
           /\ server' = r.server
           /\ call' = [op |-> "replicate_to_host_group",
                       host_group_id |-> host_group_id, db_name |-> "foo",
                       write |-> write, connections |-> connections,
                       result |-> r.result]
    /\ UNCHANGED <<rg, tasks, lock>>

NextReplicate ==
    \/ SetId
    \/ CreateHostGroup
    \/ ReplicateToHostGroup
    \/ Return

SpecReplicate == InitKey /\ [][NextReplicate]_vars

\* C27: replicate_to_host_group answers HostGroupNotFound for an id that is
\* not configured, NoHostInGroup for a group without hosts,
\* UnableToGetConnection when the connection manager fails for the first
\* host and ErrorReplicating when the first host rejects the write, and in
\* these cases no remote receives anything; otherwise the first host of the
\* group, and no other host, receives the write after the writes it held.
C27_ReplicateToHostGroup ==
    [][ call'.op = "replicate_to_host_group" =>
          LET id == call'.host_group_id
              groups == server.config.host_groups
              expected ==
                  IF id \notin DOMAIN groups THEN Err("HostGroupNotFound")
                  ELSE IF groups[id].hosts = <<>> THEN Err("NoHostInGroup")
                  ELSE IF call'.connections[groups[id].hosts[1]] = "unreachable"
                  THEN Err("UnableToGetConnection")
                  ELSE IF call'.connections[groups[id].hosts[1]] = "rejects"
                  THEN Err("ErrorReplicating")
                  ELSE Ok
          IN  /\ call'.result = expected
              /\ expected # Ok => server'.remotes = server.remotes
              /\ expected = Ok =>
                     \A host \in Hosts :
                         RemoteWrites(server', host, call'.db_name) =
                             IF host = groups[id].hosts[1]
                             THEN Append(RemoteWrites(server, host, call'.db_name),
                                         call'.write)
                             ELSE RemoteWrites(server, host, call'.db_name)
      ]_vars

\* a write went to serverB, the first host of az2, while the second host of
\* the group was unreachable and received nothing
C27_Witness ==
    /\ call.op = "replicate_to_host_group"
    /\ call.host_group_id = "az2"
    /\ call.result = Ok
    /\ call.connections["serverA"] = "unreachable"
    /\ RemoteWrites(server, "serverB", "foo") # <<>>
    /\ RemoteWrites(server, "serverA", "foo") = <<>>


----------------------------------------------------------------------------
(* The steps of handle_replicated_write *)

\* rules with a local buffer, several replication host groups and
\* subscriptions that match all tables
ReplicatedRulesSet ==
    {[store_locally |-> TRUE, replication |-> <<"az1", "az2">>,
      subscriptions |-> <<Subscription("az1", "All")>>],
     [store_locally |-> TRUE, replication |-> <<"az2">>,
      subscriptions |-> <<Subscription("az2", "All"), Subscription("az1", "All")>>],
     [store_locally |-> FALSE, replication |-> <<"az1">>,
      subscriptions |-> <<Subscription("az2", "All")>>]}

CreateReplicatedDatabase ==
    /\ call = Idle
    /\ \E rules \in ReplicatedRulesSet :
         \E r \in {create_database(server, "foo", rules)} :
           /\ server' = r.server
           /\ call' = [op |-> "create_database", db_name |-> "foo",
                       result |-> r.result]
    /\ UNCHANGED <<rg, tasks, lock>>

\* write_lines("foo", lines), the state of the connections kept with the call
WriteLinesReplicated ==
    /\ call = Idle
    /\ \E lines \in Lines, connections \in Connections :
         \E r \in {write_lines(server, "foo", lines, connections)} :
           /\ WithinBounds(r.server, "foo")
           /\ server' = r.server
           /\ call' = [op |-> "write_lines", db_name |-> "foo", lines |-> lines,
                       connections |-> connections, result |-> r.result]
    /\ UNCHANGED <<rg, tasks, lock>>

NextWrites ==
    \/ SetId
    \/ CreateReplicatedDatabase
    \/ CreateHostGroup
    \/ WriteLinesReplicated
    \/ Return

SpecWrites == InitKey /\ [][NextWrites]_vars

\* the host group ids handle_replicated_write goes through, in its order
ReplicationSteps(db) ==
    db.rules.replication
        \o [i \in 1..Len(db.rules.subscriptions) |->
                db.rules.subscriptions[i].host_group_id]

\* what one replication step answers under the configured groups
StepOutcome(groups, id, connections) ==
    IF id \notin DOMAIN groups THEN Err("HostGroupNotFound")
    ELSE IF groups[id].hosts = <<>> THEN Err("NoHostInGroup")
    ELSE IF connections[groups[id].hosts[1]] = "unreachable"
    THEN Err("UnableToGetConnection")
    ELSE IF connections[groups[id].hosts[1]] = "rejects"
    THEN Err("ErrorReplicating")
    ELSE Ok

\* the index of the first step that fails, Len(steps) + 1 when none does
FirstFailing(groups, steps, connections) ==
    LET failing == {i \in 1..Len(steps) :
                        StepOutcome(groups, steps[i], connections) # Ok}
    IN  IF failing = {} THEN Len(steps) + 1
        ELSE CHOOSE i \in failing : \A j \in failing : i <= j

----------------------------------------------------------------------------
(* Concurrent calls on the Server *)

\* config.read().await and config.write().await: the task joins the wait
\* queue of the lock (tokio's RwLock serves its waiters first in, first out)
RwLock_request(l, t, mode) ==
    [l EXCEPT !.queue = Append(@, [task |-> t, mode |-> mode])]

\* the await of task t completes: t is the first waiter, no write guard is
\* held and, for a write guard, no read guard is held either
RwLock_ready(l, t) ==
    /\ l.queue # <<>>
    /\ Head(l.queue).task = t
    /\ l.writer = ""
    /\ Head(l.queue).mode = "write" => \A u \in Tasks : l.readers[u] = 0

\* the first waiter takes its read guard and keeps it
RwLock_read(l, t) ==
    [l EXCEPT !.queue = Tail(@), !.readers[t] = @ + 1]

\* the first waiter takes its guard and drops it before the step ends
RwLock_pass(l, t) == [l EXCEPT !.queue = Tail(@)]

\* a read guard of task t is dropped
RwLock_drop_read(l, t) == [l EXCEPT !.readers[t] = @ - 1]

\* the server the concurrent calls start from: the id is set and one host
\* group is configured
ConfiguredServer ==
    create_host_group(set_id(Server_new, 1), "az1", <<"serverA">>).server

\* the rules of the create_database calls, and of db_or_create
ConcurrentRulesSet ==
    {[store_locally |-> TRUE, replication |-> <<"az1">>, subscriptions |-> <<>>]}
DefaultRules ==
    [store_locally |-> TRUE, replication |-> <<>>, subscriptions |-> <<>>]

InitConcurrent ==
    /\ rg = SomeRowGroup
    /\ call = Idle
    /\ server = ConfiguredServer
    /\ tasks = NoTasks
    /\ lock = RwLock_new

\* the write_lines calls that are under way
Writing == {"write_lines_read", "handle_replicated_write", "replicate_read"}
WritesUnderWay(pcs) == Cardinality({t \in Tasks : tasks[t].pc \in pcs})

\* the bounds on the calls of write_lines: a call starts only when the calls
\* under way and this one stay within MaxSequence and MaxLog
CallsWithinBounds(db_name) ==
    /\ ReceivedWrites(server, Hosts, db_name) + WritesUnderWay(Writing) < MaxLog
    /\ db_name \in DOMAIN server.config.databases =>
           server.config.databases[db_name].sequence
               + WritesUnderWay({"write_lines_read"}) <= MaxSequence

\* write_lines up to config.read().await
WriteLinesCall ==
    \E t \in Tasks, db_name \in DbNames, lines \in Lines :
        /\ tasks[t].pc = "idle"
        /\ CallsWithinBounds(db_name)
        /\ IF IsErr(require_id(server))
           THEN /\ tasks' = [tasks EXCEPT ![t] = IdleTask(require_id(server))]
                /\ lock' = lock
           ELSE IF IsErr(DatabaseName_new(db_name))
           THEN /\ tasks' = [tasks EXCEPT ![t] = IdleTask(DatabaseName_new(db_name))]
                /\ lock' = lock
           ELSE /\ tasks' = [tasks EXCEPT ![t] =
                                 [pc |-> "write_lines_read", db_name |-> db_name,
                                  lines |-> lines]]
                /\ lock' = RwLock_request(lock, t, "read")
        /\ UNCHANGED <<rg, call, server>>

\* write_lines from the read guard to the replication loop: the lookup, the
\* sequence number and the store in the mutable buffer
WriteLinesLocked ==
    \E t \in Tasks :
        /\ tasks[t].pc = "write_lines_read"
        /\ RwLock_ready(lock, t)
        /\ LET db_name == tasks[t].db_name IN
           IF db_name \notin DOMAIN server.config.databases
           THEN /\ tasks' = [tasks EXCEPT ![t] = IdleTask(Err("DatabaseNotFound"))]
                /\ lock' = RwLock_pass(lock, t)
                /\ server' = server
           ELSE LET db == server.config.databases[db_name]
                    next == Db_next_sequence(db)
                    write == lines_to_replicated_write(require_id(server).ok,
                                                       next.value, tasks[t].lines)
                    stored == IF db.mutable_buffer # <<>>
                              THEN [next.db EXCEPT !.mutable_buffer =
                                                       <<Append(@[1], write)>>]
                              ELSE next.db
                IN  /\ server' = [server EXCEPT !.config.databases[db_name] = stored]
                    /\ lock' = RwLock_read(lock, t)
                    /\ tasks' = [tasks EXCEPT ![t] =
                                     [pc |-> "handle_replicated_write",
                                      db_name |-> db_name, write |-> write,
                                      steps |-> db.rules.replication
                                          \o [i \in 1..Len(db.rules.subscriptions) |->
                                                db.rules.subscriptions[i].host_group_id]]]
        /\ UNCHANGED <<rg, call>>

\* replicate_to_host_group up to its config.read().await, the read guard of
\* write_lines still held
ReplicateCall ==
    \E t \in Tasks :
        /\ tasks[t].pc = "handle_replicated_write"
        /\ tasks[t].steps # <<>>
        /\ tasks' = [tasks EXCEPT ![t].pc = "replicate_read"]
        /\ lock' = RwLock_request(lock, t, "read")
        /\ UNCHANGED <<rg, call, server>>

\* replicate_to_host_group from its read guard to its return; an error ends
\* write_lines, which drops its read guard
ReplicateLocked ==
    \E t \in Tasks, connections \in Connections :
        /\ tasks[t].pc = "replicate_read"
        /\ RwLock_ready(lock, t)
        /\ \E r \in {replicate_to_host_group(server, Head(tasks[t].steps),
                                             tasks[t].db_name, tasks[t].write,
                                             connections)} :
             /\ server' = r.server
             /\ IF r.result = Ok
                THEN /\ tasks' = [tasks EXCEPT ![t].pc = "handle_replicated_write",
                                               ![t].steps = Tail(@)]
                     /\ lock' = RwLock_pass(lock, t)
                ELSE /\ tasks' = [tasks EXCEPT ![t] = IdleTask(r.result)]
                     /\ lock' = RwLock_drop_read(RwLock_pass(lock, t), t)
        /\ UNCHANGED <<rg, call>>

\* write_lines returns Ok after the last replication
WriteLinesReturn ==
    \E t \in Tasks :
        /\ tasks[t].pc = "handle_replicated_write"
        /\ tasks[t].steps = <<>>
        /\ tasks' = [tasks EXCEPT ![t] = IdleTask(Ok)]
        /\ lock' = RwLock_drop_read(lock, t)
        /\ UNCHANGED <<rg, call, server>>

\* create_database up to config.write().await
CreateDatabaseCall ==
    \E t \in Tasks, db_name \in DbNames, rules \in ConcurrentRulesSet :
        /\ tasks[t].pc = "idle"
        /\ \E r \in {create_database(server, db_name, rules)} :
             IF IsErr(r.result)
             THEN /\ tasks' = [tasks EXCEPT ![t] = IdleTask(r.result)]
                  /\ lock' = lock
             ELSE /\ tasks' = [tasks EXCEPT ![t] =
                                   [pc |-> "create_database_write",
                                    op |-> "create_database",
                                    db_name |-> db_name, rules |-> rules]]
                  /\ lock' = RwLock_request(lock, t, "write")
        /\ UNCHANGED <<rg, call, server>>

\* create_database from the write guard to its return: the insert; within
\* db_or_create the call of db follows
CreateDatabaseLocked ==
    \E t \in Tasks :
        /\ tasks[t].pc = "create_database_write"
        /\ RwLock_ready(lock, t)
        /\ server' = create_database(server, tasks[t].db_name, tasks[t].rules).server
        /\ IF tasks[t].op = "create_database"
           THEN /\ tasks' = [tasks EXCEPT ![t] = IdleTask(Ok)]
                /\ lock' = RwLock_pass(lock, t)
           ELSE /\ tasks' = [tasks EXCEPT ![t] =
                                 [pc |-> "db_inserted_read",
                                  db_name |-> tasks[t].db_name]]
                /\ lock' = RwLock_request(RwLock_pass(lock, t), t, "read")
        /\ UNCHANGED <<rg, call>>

\* db_or_create up to the config.read().await of its first db call
DbOrCreateCall ==
    \E t \in Tasks, db_name \in DbNames :
        /\ tasks[t].pc = "idle"
        /\ IF IsErr(DatabaseName_new(db_name))
           THEN /\ tasks' = [tasks EXCEPT ![t] = IdleTask(DatabaseName_new(db_name))]
                /\ lock' = lock
           ELSE /\ tasks' = [tasks EXCEPT ![t] =
                                 [pc |-> "db_or_create_read", db_name |-> db_name]]
                /\ lock' = RwLock_request(lock, t, "read")
        /\ UNCHANGED <<rg, call, server>>

\* db_or_create from the read guard of its first db call: the database is
\* returned, or create_database is called up to its config.write().await
DbOrCreateLookup ==
    \E t \in Tasks :
        /\ tasks[t].pc = "db_or_create_read"
        /\ RwLock_ready(lock, t)
        /\ IF tasks[t].db_name \in DOMAIN server.config.databases
           THEN /\ tasks' = [tasks EXCEPT ![t] = IdleTask(Ok)]
                /\ lock' = RwLock_pass(lock, t)
           ELSE IF IsErr(require_id(server))
           THEN /\ tasks' = [tasks EXCEPT ![t] = IdleTask(require_id(server))]
                /\ lock' = RwLock_pass(lock, t)
           ELSE /\ tasks' = [tasks EXCEPT ![t] =
                                 [pc |-> "create_database_write",
                                  op |-> "db_or_create",
                                  db_name |-> tasks[t].db_name,
                                  rules |-> DefaultRules]]
                /\ lock' = RwLock_request(RwLock_pass(lock, t), t, "write")
        /\ UNCHANGED <<rg, call, server>>

\* db_or_create from the read guard of its second db call to its return
DbOrCreateFetch ==
    \E t \in Tasks :
        /\ tasks[t].pc = "db_inserted_read"
        /\ RwLock_ready(lock, t)
        /\ tasks' = [tasks EXCEPT ![t] =
                         IdleTask(IF tasks[t].db_name \in DOMAIN server.config.databases
                                  THEN Ok ELSE Panic)]
        /\ lock' = RwLock_pass(lock, t)
        /\ UNCHANGED <<rg, call, server>>

NextConcurrent ==
    \/ WriteLinesCall
    \/ WriteLinesLocked
    \/ ReplicateCall
    \/ ReplicateLocked
    \/ WriteLinesReturn
    \/ CreateDatabaseCall
    \/ CreateDatabaseLocked
    \/ DbOrCreateCall
    \/ DbOrCreateLookup
    \/ DbOrCreateFetch

SpecConcurrent == InitConcurrent /\ [][NextConcurrent]_vars

\* every task that can take a step of its call eventually takes one
TaskStep(t) == NextConcurrent /\ tasks'[t] # tasks[t]
SpecConcurrentFair == SpecConcurrent /\ \A t \in Tasks : WF_vars(TaskStep(t))


\* a write_lines call of task t holds its read guard and has host groups
\* left to replicate to
Replicating(t) ==
    /\ tasks[t].pc \in {"handle_replicated_write", "replicate_read"}
    /\ tasks[t].steps # <<>>

\* C29: every write_lines call on a database with at least one replication
\* or subscription host group eventually returns, whatever create_database
\* and db_or_create calls run beside it: the read guard that
\* replicate_to_host_group asks for while write_lines holds one is always
\* granted in the end.
C29_WriteLinesReturns ==
    \A t \in Tasks : Replicating(t) ~> (tasks[t].pc = "idle")

\* old is an initial part of new
IsInitialPart(old, new) ==
    /\ Len(old) <= Len(new)
    /\ \A i \in 1..Len(old) : old[i] = new[i]

\* C30: no call replaces the entry of an existing database: over every step
\* the entry stays under its name with its rules, its sequence counter does
\* not go back and its local buffer keeps the writes it holds.
C30_DatabaseIdentity ==
    [][ \A name \in DOMAIN server.config.databases :
          /\ name \in DOMAIN server'.config.databases
          /\ LET old == server.config.databases[name]
                 new == server'.config.databases[name]
             IN  /\ new.rules = old.rules
                 /\ new.sequence >= old.sequence
                 /\ (old.mutable_buffer = <<>>) = (new.mutable_buffer = <<>>)
                 /\ old.mutable_buffer # <<>> =>
                        IsInitialPart(old.mutable_buffer[1], new.mutable_buffer[1])
      ]_vars

====
